---- MODULE Spec2Model ----
(***************************************************************************)
(* Model of the generic C collections library (vector, stack, list, queue, *)
(* deque).  Values are opaque fixed-width records kept in individually     *)
(* allocated slots; a container stores pointers to slots.  The heap of     *)
(* slots and the heap of list nodes are explicit so that ownership,        *)
(* release and aliasing of slots can be stated.                            *)
(***************************************************************************)
EXTENDS Integers, Sequences, FiniteSets, TLC

(***************************************************************************)
(* Bounds of the model                                                     *)
(***************************************************************************)
MaxLimit == 2
MaxSlots == 4

(***************************************************************************)
(* Program constants                                                       *)
(***************************************************************************)
NULL == 0
\* a container pointer that is NULL
NoObject == [null |-> TRUE]
\* a container pointer whose container has been freed
Freed == [freed |-> TRUE]
SIZE_MAX == 255
PtrSize == 8
\* a limit of half the address space
VECTOR_LIMIT_half == SIZE_MAX \div 2
VECTOR_LIMIT == SIZE_MAX \div (2 * PtrSize) - 1
STACK_LIMIT == SIZE_MAX \div (2 * PtrSize) - 1

\* a double growth factor f is kept as the integer 2 * f (halves)
IncrementMin == 4
Increments == {2, 3, 4}

\* the values stored: the records (1, a), (1, b), (2, c), compared by key
Values == {1, 2, 3}
SlotIds == 1..MaxSlots
NodeIds == 1..MaxSlots
Handles == {1, 2}
Other(h) == 3 - h

Key(v) == <<1, 1, 2>>[v]
compare(first, second) == Key(first) - Key(second)

\* int, modelled eight bits wide as size_t is: a product that leaves the range wraps
INT_MAX == 127
INT_MIN == (0 - INT_MAX) - 1
AsInt(x) == ((x - INT_MIN) % (INT_MAX - INT_MIN + 1)) + INT_MIN

\* the comparators a caller passes: the difference of two ints (the examples' compare), the
\* difference of the keys, and one that answers with the extreme negative and positive int
Comparators == {"int", "key", "extreme"}
Compared(cmp, first, second) ==
    IF cmp = "int" THEN first - second
    ELSE IF cmp = "key" THEN compare(first, second)
    ELSE IF first < second THEN INT_MIN ELSE IF first > second THEN INT_MAX ELSE 0

VARIABLES family, obj, slots, nodes, aborted
vars == <<family, obj, slots, nodes, aborted>>

(***************************************************************************)
(* The allocator.  malloc returns the lowest free address (addresses are   *)
(* interchangeable) or NULL when the caller's oracle says the allocation   *)
(* fails or the heap is exhausted.                                         *)
(***************************************************************************)
FreeSlot == [live |-> FALSE, val |-> NULL]
FreeNode == [live |-> FALSE, value |-> NULL, next |-> NULL, previous |-> NULL]

malloc(heap, succeeds) ==
    IF succeeds /\ \E i \in DOMAIN heap : ~heap[i].live
    THEN CHOOSE i \in DOMAIN heap : ~heap[i].live /\ \A j \in DOMAIN heap : j < i => heap[j].live
    ELSE NULL

\* free(NULL) does nothing; a freed cell holds nothing.  free of a cell that is not allocated
\* is undefined: the cell is kept as spoiled (allocated and holding nothing), never handed
\* out again
free(heap, p) ==
    IF p = NULL THEN heap
    ELSE [heap EXCEPT ![p] = [f \in DOMAIN heap[p] |-> IF f = "live" THEN ~heap[p].live ELSE NULL]]

(***************************************************************************)
(* Addresses carry no meaning of their own: a state is kept with its       *)
(* allocations renumbered in the order in which the containers reach them  *)
(* (first handle first), then the live unreachable ones, then the free     *)
(* ones.  Renumber is a permutation of the addresses applied to every      *)
(* pointer of the state.                                                   *)
(***************************************************************************)
RECURSIVE SetToSeq(_)
SetToSeq(S) ==
    IF S = {} THEN <<>>
    ELSE LET m == CHOOSE x \in S : \A y \in S : x <= y IN <<m>> \o SetToSeq(S \ {m})

RECURSIVE Dedup(_)
Dedup(s) ==
    IF s = <<>> THEN <<>>
    ELSE LET r == Dedup(SubSeq(s, 1, Len(s) - 1))
             x == s[Len(s)]
         IN IF x = NULL \/ \E i \in DOMAIN r : r[i] = x THEN r ELSE Append(r, x)

Range(s) == {s[i] : i \in DOMAIN s}

\* the addresses of heap in canonical order, given the reachable ones in reach order
Order(heap, refs) ==
    LET d == Dedup(refs)
        liveRest == {i \in DOMAIN heap : heap[i].live} \ Range(d)
        freeRest == (DOMAIN heap \ Range(d)) \ liveRest
    IN d \o SetToSeq(liveRest) \o SetToSeq(freeRest)

Renaming(order) ==
    [x \in Range(order) \cup {NULL} |->
        IF x = NULL THEN NULL ELSE CHOOSE i \in DOMAIN order : order[i] = x]

IsArray == family \in {"vector", "stack"}
IsObject(o) == o # NoObject /\ o # Freed

\* the slot array of an array-backed container: vector->data, stack->values
Array(o) == IF family = "vector" THEN o.data ELSE o.values

RECURSIVE Walk(_, _, _)
\* the nodes met from node p along next, at most fuel of them
Walk(heap, p, fuel) ==
    IF p = NULL \/ fuel = 0 THEN <<>> ELSE <<p>> \o Walk(heap, heap[p].next, fuel - 1)

Renumber(newObj, newSlots, newNodes) ==
    LET W(h) == IF IsObject(newObj[h])
                THEN Walk(newNodes, newObj[h].front, MaxSlots) \o <<newObj[h].back>>
                ELSE <<>>
        D(h) == IF IsObject(newObj[h]) THEN Array(newObj[h]) ELSE <<>>
        Rename(nodeOrder, slotOrder, rn, rs) ==
            [obj |-> [h \in Handles |->
                        IF ~IsObject(newObj[h]) THEN newObj[h]
                        ELSE IF family = "vector"
                        THEN [newObj[h] EXCEPT !.data = [i \in DOMAIN @ |-> rs[@[i]]]]
                        ELSE IF family = "stack"
                        THEN [newObj[h] EXCEPT !.values = [i \in DOMAIN @ |-> rs[@[i]]]]
                        ELSE [newObj[h] EXCEPT !.front = rn[@], !.back = rn[@]]],
             slots |-> [i \in DOMAIN newSlots |-> newSlots[slotOrder[i]]],
             nodes |-> [i \in DOMAIN newNodes |->
                         [newNodes[nodeOrder[i]] EXCEPT !.value = rs[@], !.next = rn[@],
                                                        !.previous = rn[@]]]]
        Slots(nodeOrder, slotOrder) ==
            Rename(nodeOrder, slotOrder, Renaming(nodeOrder), Renaming(slotOrder))
        Nodes(nodeOrder) ==
            Slots(nodeOrder,
                  Order(newSlots,
                        IF IsArray THEN D(1) \o D(2)
                        ELSE [i \in DOMAIN nodeOrder |-> newNodes[nodeOrder[i]].value]))
    IN Nodes(Order(newNodes, IF IsArray THEN <<>> ELSE W(1) \o W(2)))

\* the values a container holds, front to back
Contents(o, heapNodes, heapSlots) ==
    IF IsArray THEN [i \in DOMAIN Array(o) |-> heapSlots[Array(o)[i]].val]
    ELSE LET w == Walk(heapNodes, o.front, MaxSlots)
         IN [i \in DOMAIN w |-> heapSlots[heapNodes[w[i]].value].val]

\* the state after a call, kept in canonical numbering
Commit(newObj, newSlots, newNodes) ==
    LET Keep(c) == obj' = c.obj /\ slots' = c.slots /\ nodes' = c.nodes
    IN IF newObj = obj /\ newSlots = slots /\ newNodes = nodes
       THEN UNCHANGED <<obj, slots, nodes>>
       ELSE Keep(Renumber(newObj, newSlots, newNodes))

\* the outcome of the allocations and of the clone hook during one call
AllOk == [realloc |-> TRUE, malloc |-> TRUE, hook |-> TRUE, node |-> TRUE]
\* a call returns at its first failure: at most one failure per call is enough
Oracles == {AllOk, [AllOk EXCEPT !.realloc = FALSE], [AllOk EXCEPT !.malloc = FALSE],
            [AllOk EXCEPT !.hook = FALSE], [AllOk EXCEPT !.node = FALSE]}
\* in a loop of calls, call number failAt (0: none) meets the oracle orc
OracleAt(i, failAt, orc) == IF i = failAt THEN orc ELSE AllOk

(***************************************************************************)
(* source/vector/vector.c                                                  *)
(***************************************************************************)
vector_empty(v) == v.size = 0
vector_full(v) == v.size = v.limit

\* size_t * double, converted back to size_t (truncation)
Grow(capacity, increment) == (capacity * increment) \div 2

_data_clone(v, data, destination, hookOk) ==
    IF data = NULL \/ destination = NULL THEN [ok |-> FALSE, err |-> "EINVAL", out |-> NULL]
    ELSE IF v.clone THEN
        IF hookOk THEN [ok |-> TRUE, err |-> "none", out |-> data]
        ELSE [ok |-> FALSE, err |-> "EHOOK", out |-> NULL]
    ELSE [ok |-> TRUE, err |-> "none", out |-> data]

_data_construct(v, heap, data, orc) ==
    IF data = NULL THEN [new |-> NULL, slots |-> heap, err |-> "EINVAL"]
    ELSE LET new == malloc(heap, orc.malloc) IN
        IF new = NULL THEN [new |-> NULL, slots |-> heap, err |-> "ENOMEM"]
        ELSE LET c == _data_clone(v, data, new, orc.hook) IN
            IF ~c.ok THEN [new |-> NULL, slots |-> heap, err |-> c.err]
            ELSE [new |-> new, slots |-> [heap EXCEPT ![new] = [live |-> TRUE, val |-> c.out]],
                  err |-> "none"]

\* the delete hook, then free(data); the hook handed a buffer that holds no value reads what
\* was never written, which is undefined: the buffer is kept as spoiled
_data_free(v, heap, data) ==
    IF data # NULL /\ heap[data].live /\ heap[data].val = NULL THEN heap ELSE free(heap, data)

RECURSIVE _reserve_loop(_, _, _)
_reserve_loop(v, capacity, size) ==
    IF capacity < size THEN
        LET grown == Grow(capacity, v.increment)
            next == IF grown > v.limit THEN v.limit
                    ELSE IF grown <= v.capacity THEN v.limit
                    ELSE grown
        IN _reserve_loop(v, next, size)
    ELSE capacity

\* vector_reserve that stores the new capacity before it knows that realloc succeeded
vector_reserve_early(v, size, reallocOk) ==
    IF size > v.limit THEN [v |-> v, ok |-> FALSE, err |-> "EINVAL"]
    ELSE IF size <= v.capacity THEN [v |-> v, ok |-> TRUE, err |-> "none"]
    ELSE LET capacity == _reserve_loop(v, IF v.capacity = 0 THEN 1 ELSE v.capacity, size)
             grown == [v EXCEPT !.capacity = capacity, !.buf = TRUE] IN
        IF ~reallocOk THEN [v |-> grown, ok |-> FALSE, err |-> "ENOMEM"]
        ELSE [v |-> grown, ok |-> TRUE, err |-> "none"]

vector_reserve(v, size, reallocOk) ==
    IF size > v.limit THEN [v |-> v, ok |-> FALSE, err |-> "EINVAL"]
    ELSE IF size <= v.capacity THEN [v |-> v, ok |-> TRUE, err |-> "none"]
    ELSE LET capacity == _reserve_loop(v, IF v.capacity = 0 THEN 1 ELSE v.capacity, size) IN
        IF ~reallocOk THEN [v |-> v, ok |-> FALSE, err |-> "ENOMEM"]
        ELSE [v |-> [v EXCEPT !.capacity = capacity, !.buf = TRUE], ok |-> TRUE, err |-> "none"]

\* vector_trim that forgets the elements: capacity 0 whatever the size
vector_trim_zero(v, reallocOk) ==
    [v |-> [v EXCEPT !.buf = FALSE, !.capacity = 0], ok |-> TRUE, err |-> "none"]

vector_trim_loose(v, reallocOk) ==
    IF vector_empty(v) THEN
        [v |-> [v EXCEPT !.buf = FALSE, !.capacity = v.size], ok |-> TRUE, err |-> "none"]
    ELSE IF ~reallocOk THEN [v |-> [v EXCEPT !.capacity = v.size], ok |-> FALSE, err |-> "ENOMEM"]
    ELSE [v |-> [v EXCEPT !.capacity = v.size], ok |-> TRUE, err |-> "none"]

vector_trim(v, reallocOk) ==
    IF vector_empty(v) THEN
        [v |-> [v EXCEPT !.buf = FALSE, !.capacity = v.size], ok |-> TRUE, err |-> "none"]
    ELSE IF ~reallocOk THEN [v |-> v, ok |-> FALSE, err |-> "ENOMEM"]
    ELSE [v |-> [v EXCEPT !.capacity = v.size], ok |-> TRUE, err |-> "none"]

\* the shift that starts one slot too low: the element at index is overwritten, not moved
ShiftRight_short(data, index, new) ==
    [i \in 1..(Len(data) + 1) |->
        IF i - 1 < index THEN data[i] ELSE IF i - 1 = index THEN new
        ELSE IF i - 1 = index + 1 THEN new ELSE data[i - 1]]

\* for (i = size; i > index; i--) data[i] = data[i - 1]; data[index] = new
ShiftRight(data, index, new) ==
    [i \in 1..(Len(data) + 1) |->
        IF i - 1 < index THEN data[i] ELSE IF i - 1 = index THEN new ELSE data[i - 1]]

\* for (i = index; i < size; i++) data[i] = data[i + 1], size already decremented
\* the shift that drops the last slot instead of the one at index
ShiftLeft_last(data, index) == SubSeq(data, 1, Len(data) - 1)

ShiftLeft(data, index) ==
    [i \in 1..(Len(data) - 1) |-> IF i - 1 < index THEN data[i] ELSE data[i + 1]]

vector_insert(v, heap, index, data, orc) ==
    IF data = NULL \/ index > v.size
    THEN [v |-> v, slots |-> heap, ok |-> FALSE, err |-> "EINVAL"]
    ELSE IF vector_full(v)
    THEN [v |-> v, slots |-> heap, ok |-> FALSE, err |-> "ENOSPC"]
    ELSE LET r == vector_reserve(v, v.size + 1, orc.realloc) IN
        IF ~r.ok THEN [v |-> v, slots |-> heap, ok |-> FALSE, err |-> r.err]
        ELSE LET c == _data_construct(r.v, heap, data, orc) IN
            IF c.new = NULL THEN [v |-> r.v, slots |-> heap, ok |-> FALSE, err |-> c.err]
            ELSE [v |-> [r.v EXCEPT !.data = ShiftRight(r.v.data, index, c.new),
                                    !.size = r.v.size + 1],
                  slots |-> c.slots, ok |-> TRUE, err |-> "none"]

vector_get(v, heap, index, destination, orc) ==
    IF destination = NULL \/ index >= v.size THEN [ok |-> FALSE, err |-> "EINVAL", out |-> NULL]
    ELSE _data_clone(v, heap[v.data[index + 1]].val, destination, orc.hook)

\* vector_remove that destroys the slot before it knows that the copy out succeeded
vector_remove_first(v, heap, index, destination, orc) ==
    IF index >= v.size
    THEN [v |-> v, slots |-> heap, ok |-> FALSE, err |-> "EINVAL", out |-> NULL]
    ELSE LET g == IF destination # NULL THEN vector_get(v, heap, index, destination, orc)
                  ELSE [ok |-> TRUE, err |-> "none", out |-> NULL] IN
         [v |-> [v EXCEPT !.data = ShiftLeft(v.data, index), !.size = v.size - 1],
          slots |-> _data_free(v, heap, v.data[index + 1]),
          ok |-> g.ok, err |-> g.err, out |-> g.out]

vector_remove_copies(v, heap, index, destination, orc) ==
    IF index >= v.size
    THEN [v |-> v, slots |-> heap, ok |-> FALSE, err |-> "EINVAL", out |-> NULL]
    ELSE LET g == vector_get(v, heap, index, destination, orc) IN
        IF ~g.ok THEN [v |-> v, slots |-> heap, ok |-> FALSE, err |-> g.err, out |-> NULL]
        ELSE [v |-> [v EXCEPT !.data = ShiftLeft(v.data, index), !.size = v.size - 1],
              slots |-> _data_free(v, heap, v.data[index + 1]),
              ok |-> TRUE, err |-> "none", out |-> g.out]

vector_remove(v, heap, index, destination, orc) ==
    IF index >= v.size
    THEN [v |-> v, slots |-> heap, ok |-> FALSE, err |-> "EINVAL", out |-> NULL]
    ELSE LET g == IF destination # NULL THEN vector_get(v, heap, index, destination, orc)
                  ELSE [ok |-> TRUE, err |-> "none", out |-> NULL] IN
        IF ~g.ok THEN [v |-> v, slots |-> heap, ok |-> FALSE, err |-> g.err, out |-> NULL]
        ELSE [v |-> [v EXCEPT !.data = ShiftLeft(v.data, index), !.size = v.size - 1],
              slots |-> _data_free(v, heap, v.data[index + 1]),
              ok |-> TRUE, err |-> "none", out |-> g.out]

RECURSIVE _removeall_skips(_, _, _, _)
\* the loop of vector_removeall that passes over the element below each one it removes
_removeall_skips(v, heap, i, remove) ==
    IF i > 0 THEN
        IF compare(heap[v.data[i]].val, remove) = 0 THEN
            LET r == vector_remove(v, heap, i - 1, NULL, AllOk) IN
            IF ~r.ok THEN [v |-> r.v, slots |-> r.slots, ok |-> FALSE, err |-> r.err]
            ELSE _removeall_skips(r.v, r.slots, IF i >= 2 THEN i - 2 ELSE 0, remove)
        ELSE _removeall_skips(v, heap, i - 1, remove)
    ELSE [v |-> v, slots |-> heap, ok |-> TRUE, err |-> "none"]

RECURSIVE _removeall_loop(_, _, _, _)
\* for (i = size; i > 0; i--) if (compare(data[i - 1], remove) == 0) vector_remove(i - 1, NULL)
_removeall_loop(v, heap, i, remove) ==
    IF i > 0 THEN
        IF compare(heap[v.data[i]].val, remove) = 0 THEN
            LET r == vector_remove(v, heap, i - 1, NULL, AllOk) IN
            IF ~r.ok THEN [v |-> r.v, slots |-> r.slots, ok |-> FALSE, err |-> r.err]
            ELSE _removeall_loop(r.v, r.slots, i - 1, remove)
        ELSE _removeall_loop(v, heap, i - 1, remove)
    ELSE [v |-> v, slots |-> heap, ok |-> TRUE, err |-> "none"]

vector_removeall(v, heap, remove) ==
    IF remove = NULL THEN [v |-> v, slots |-> heap, ok |-> FALSE, err |-> "EINVAL"]
    ELSE _removeall_loop(v, heap, v.size, remove)

\* (_reverse ? -1 : 1) * _compare(*first, *second), on what _compare returned
_qsort_compare(reverse, compared) == AsInt((IF reverse THEN 0 - 1 ELSE 1) * compared)

\* the product in _qsort_compare overflows int for some pair of the array
SortOverflows(v, heap, reverse, cmp) ==
    \E i, j \in DOMAIN v.data :
        LET product == (IF reverse THEN 0 - 1 ELSE 1) *
                           Compared(cmp, heap[v.data[i]].val, heap[v.data[j]].val)
        IN product # AsInt(product)

\* qsort(base, nmemb, sizeof(void *), _qsort_compare): the orders of the nmemb pointers in
\* which no pointer is followed by one that _qsort_compare puts before it; which of them the
\* C library leaves is its choice
qsort(base, heap, reverse, cmp) ==
    {sorted \in {[i \in DOMAIN base |-> base[f[i]]] : f \in Permutations(DOMAIN base)} :
        \A i \in 1..(Len(sorted) - 1) :
            _qsort_compare(reverse, Compared(cmp, heap[sorted[i]].val,
                                             heap[sorted[i + 1]].val)) <= 0}

\* the outcomes of vector_sort(vector, reverse, compare), one for each order qsort may leave
vector_sort(v, heap, reverse, cmp) ==
    {[v |-> [v EXCEPT !.data = sorted], slots |-> heap, ok |-> TRUE, err |-> "none"] :
        sorted \in qsort(v.data, heap, reverse, cmp)}

\* vector_set that destroys the old slot before it constructs the new one
vector_set_destroys(v, heap, index, data, orc) ==
    IF data = NULL \/ index >= v.size
    THEN [v |-> v, slots |-> heap, ok |-> FALSE, err |-> "EINVAL"]
    ELSE LET c == _data_construct(v, _data_free(v, heap, v.data[index + 1]), data, orc) IN
        IF c.new = NULL
        THEN [v |-> v, slots |-> _data_free(v, heap, v.data[index + 1]), ok |-> FALSE,
              err |-> c.err]
        ELSE [v |-> [v EXCEPT !.data[index + 1] = c.new], slots |-> c.slots,
              ok |-> TRUE, err |-> "none"]

vector_set(v, heap, index, data, orc) ==
    IF data = NULL \/ index >= v.size
    THEN [v |-> v, slots |-> heap, ok |-> FALSE, err |-> "EINVAL"]
    ELSE LET c == _data_construct(v, heap, data, orc) IN
        IF c.new = NULL THEN [v |-> v, slots |-> heap, ok |-> FALSE, err |-> c.err]
        ELSE [v |-> [v EXCEPT !.data[index + 1] = c.new],
              slots |-> _data_free(v, c.slots, v.data[index + 1]),
              ok |-> TRUE, err |-> "none"]

\* the loop of vector_clear that releases the first slot only
_clear_loop_first(v, heap, i) ==
    IF i < v.size THEN _data_free(v, heap, v.data[i + 1]) ELSE heap

RECURSIVE _clear_loop(_, _, _)
_clear_loop(v, heap, i) ==
    IF i < v.size THEN _clear_loop(v, _data_free(v, heap, v.data[i + 1]), i + 1) ELSE heap

vector_clear_keeps(v, heap) ==
    [v |-> v, slots |-> _clear_loop(v, heap, 0), ok |-> TRUE, err |-> "none"]

vector_clear(v, heap) ==
    [v |-> [v EXCEPT !.size = 0, !.data = <<>>], slots |-> _clear_loop(v, heap, 0),
     ok |-> TRUE, err |-> "none"]

\* vector_clear, vector_trim (of an empty vector: frees the buffer), free(vector)
vector_free(v, heap) == vector_clear(v, heap).slots

vector_construct_low(width, limit, capacity, increment, clone, mallocOk, dataOk) ==
    IF width = 0 \/ limit = 0 \/ limit > VECTOR_LIMIT \/ capacity > limit \/ increment < 3
    THEN [v |-> NoObject, err |-> "EINVAL"]
    ELSE IF ~mallocOk THEN [v |-> NoObject, err |-> "ENOMEM"]
    ELSE IF capacity > 0 /\ ~dataOk THEN [v |-> NoObject, err |-> "ENOMEM"]
    ELSE [v |-> [size |-> 0, width |-> width, limit |-> limit, capacity |-> capacity,
                 increment |-> increment, data |-> <<>>, buf |-> capacity > 0, clone |-> clone],
          err |-> "none"]

vector_construct(width, limit, capacity, increment, clone, mallocOk, dataOk) ==
    IF width = 0 \/ limit = 0 \/ limit > VECTOR_LIMIT \/ capacity > limit \/ increment < IncrementMin
    THEN [v |-> NoObject, err |-> "EINVAL"]
    ELSE IF ~mallocOk THEN [v |-> NoObject, err |-> "ENOMEM"]
    ELSE IF capacity > 0 /\ ~dataOk THEN [v |-> NoObject, err |-> "ENOMEM"]
    ELSE [v |-> [size |-> 0, width |-> width, limit |-> limit, capacity |-> capacity,
                 increment |-> increment, data |-> <<>>, buf |-> capacity > 0, clone |-> clone],
          err |-> "none"]

\* the clone that takes over the slots of the vector instead of constructing its own
_clone_loop_shallow(vector, clone, heap, i, failAt, orc) ==
    [v |-> [clone EXCEPT !.data = vector.data, !.size = vector.size], slots |-> heap,
     err |-> "none"]

RECURSIVE _clone_loop(_, _, _, _, _, _)
\* for (i = 0; i < vector->size; i++) vector_insert(clone, clone->size, vector->data[i])
_clone_loop(vector, clone, heap, i, failAt, orc) ==
    IF i < vector.size THEN
        LET r == vector_insert(clone, heap, clone.size, heap[vector.data[i + 1]].val,
                               OracleAt(i + 1, failAt, orc)) IN
        IF ~r.ok THEN [v |-> NoObject, slots |-> vector_free(r.v, r.slots), err |-> r.err]
        ELSE _clone_loop(vector, r.v, r.slots, i + 1, failAt, orc)
    ELSE [v |-> clone, slots |-> heap, err |-> "none"]

vector_clone(vector, heap, sc) ==
    LET c == vector_construct(vector.width, vector.limit, vector.capacity, vector.increment,
                              vector.clone, sc.mallocOk, sc.dataOk) IN
    IF c.v = NoObject THEN [v |-> NoObject, slots |-> heap, err |-> c.err]
    ELSE _clone_loop(vector, c.v, heap, 0, sc.failAt, sc.orc)

RECURSIVE _reverse_front(_, _, _, _, _, _)
_reverse_front(vector, reversed, heap, i, failAt, orc) ==
    IF i > 0 THEN
        LET r == vector_insert(reversed, heap, 0, heap[vector.data[i]].val,
                               OracleAt(vector.size - i + 1, failAt, orc)) IN
        IF ~r.ok THEN [v |-> NoObject, slots |-> vector_free(r.v, r.slots), err |-> r.err]
        ELSE _reverse_front(vector, r.v, r.slots, i - 1, failAt, orc)
    ELSE [v |-> reversed, slots |-> heap, err |-> "none"]

RECURSIVE _reverse_loop(_, _, _, _, _, _)
\* for (i = vector->size; i > 0; i--) vector_insert(reversed, reversed->size, vector->data[i - 1])
_reverse_loop(vector, reversed, heap, i, failAt, orc) ==
    IF i > 0 THEN
        LET r == vector_insert(reversed, heap, reversed.size, heap[vector.data[i]].val,
                               OracleAt(vector.size - i + 1, failAt, orc)) IN
        IF ~r.ok THEN [v |-> NoObject, slots |-> vector_free(r.v, r.slots), err |-> r.err]
        ELSE _reverse_loop(vector, r.v, r.slots, i - 1, failAt, orc)
    ELSE [v |-> reversed, slots |-> heap, err |-> "none"]

vector_reverse(vector, heap, sc) ==
    LET c == vector_construct(vector.width, vector.limit, vector.capacity, vector.increment,
                              vector.clone, sc.mallocOk, sc.dataOk) IN
    IF c.v = NoObject THEN [v |-> NoObject, slots |-> heap, err |-> c.err]
    ELSE _reverse_loop(vector, c.v, heap, vector.size, sc.failAt, sc.orc)

(***************************************************************************)
(* Calls of the vector interface.  Handle h names a vector_t * variable of *)
(* the caller; obj[h] = NoObject when it holds no vector.  Every action is *)
(* one call; its inputs are the arguments and the outcome of each          *)
(* allocation and clone-hook call made during the call.                    *)
(***************************************************************************)
Widths == {0, 1}
Limits == 0..MaxLimit \cup {VECTOR_LIMIT + 1}
Capacities == 0..(MaxLimit + 1)
Pointers == Values \cup {NULL}
Destinations == {NULL, 1}
\* the indexes worth telling apart for a container of this size
Indexes(size) == 0..(size + 1)
InsertOracles == {o \in Oracles : o.node}
SetOracles == {o \in Oracles : o.node /\ o.realloc}
\* the last index whose element compares equal to key
RECURSIVE _search_back(_, _, _, _)
_search_back(v, heap, key, i) ==
    IF i >= v.size THEN SIZE_MAX
    ELSE LET later == _search_back(v, heap, key, i + 1)
         IN IF later # SIZE_MAX THEN later
            ELSE IF compare(heap[v.data[i + 1]].val, key) = 0 THEN i ELSE SIZE_MAX

RECURSIVE _search_loop(_, _, _, _)
\* for (i = 0; i < vector->size; i++) if (compare(vector->data[i], key) == 0) return i
_search_loop(v, heap, key, i) ==
    IF i >= v.size THEN SIZE_MAX
    ELSE IF compare(heap[v.data[i + 1]].val, key) = 0 THEN i
    ELSE _search_loop(v, heap, key, i + 1)

vector_search(v, heap, key) ==
    IF key = NULL THEN [index |-> SIZE_MAX, err |-> "EINVAL"]
    ELSE [index |-> _search_loop(v, heap, key, 0), err |-> "none"]

vector_contains(v, heap, key) ==
    [found |-> vector_search(v, heap, key).index # SIZE_MAX, err |-> vector_search(v, heap, key).err]

GetOracles == {o \in Oracles : o.node /\ o.realloc /\ o.malloc}
\* a whole-container copy: the struct allocation fails, or the buffer allocation
\* fails, or insertion number failAt fails as orc tells, or nothing fails
CopyScenarios(size, oracles) ==
    {[mallocOk |-> FALSE, dataOk |-> TRUE, failAt |-> 0, orc |-> AllOk],
     [mallocOk |-> TRUE, dataOk |-> FALSE, failAt |-> 0, orc |-> AllOk],
     [mallocOk |-> TRUE, dataOk |-> TRUE, failAt |-> 0, orc |-> AllOk]}
    \cup {[mallocOk |-> TRUE, dataOk |-> TRUE, failAt |-> k, orc |-> o] :
            k \in 1..size, o \in oracles \ {AllOk}}
Set(h, o) == [obj EXCEPT ![h] = o]

\* vector_construct whose buffer allocation fails runs vector_free on the
\* uninitialised struct: it either gets away with it or the program dies
VectorConstruct ==
    /\ ~aborted /\ family = "vector" /\ obj[1] = NoObject /\ obj[2] = NoObject
    /\ \E width \in Widths, limit \in Limits, capacity \in Capacities, increment \in Increments,
          clone \in BOOLEAN, mallocOk \in BOOLEAN, dataOk \in BOOLEAN :
        LET c == vector_construct(width, limit, capacity, increment, clone, mallocOk, dataOk)
            undefined == c.err = "ENOMEM" /\ mallocOk IN
        /\ obj' = Set(1, c.v)
        /\ aborted' \in (IF undefined THEN BOOLEAN ELSE {FALSE})
    /\ UNCHANGED <<family, slots, nodes>>

VectorClone(h) ==
    /\ ~aborted /\ family = "vector" /\ IsObject(obj[h]) /\ obj[Other(h)] = NoObject
    /\ \E sc \in CopyScenarios(obj[h].size, InsertOracles) :
        LET c == vector_clone(obj[h], slots, sc)
            undefined == sc.mallocOk /\ obj[h].capacity > 0 /\ ~sc.dataOk IN
        /\ Commit(Set(Other(h), c.v), c.slots, nodes)
        /\ aborted' \in (IF undefined THEN BOOLEAN ELSE {FALSE})
    /\ UNCHANGED family

VectorReverse(h) ==
    /\ ~aborted /\ family = "vector" /\ IsObject(obj[h]) /\ obj[Other(h)] = NoObject
    /\ \E sc \in CopyScenarios(obj[h].size, InsertOracles) :
        LET c == vector_reverse(obj[h], slots, sc)
            undefined == sc.mallocOk /\ obj[h].capacity > 0 /\ ~sc.dataOk IN
        /\ Commit(Set(Other(h), c.v), c.slots, nodes)
        /\ aborted' \in (IF undefined THEN BOOLEAN ELSE {FALSE})
    /\ UNCHANGED family

VectorFree(h) ==
    /\ ~aborted /\ family = "vector" /\ IsObject(obj[h])
    /\ Commit(Set(h, NoObject), vector_free(obj[h], slots), nodes)
    /\ UNCHANGED <<family, aborted>>

VectorClear(h) ==
    /\ ~aborted /\ family = "vector" /\ IsObject(obj[h])
    /\ LET r == vector_clear(obj[h], slots) IN Commit(Set(h, r.v), r.slots, nodes)
    /\ UNCHANGED <<family, aborted>>

VectorReserve(h) ==
    /\ ~aborted /\ family = "vector" /\ IsObject(obj[h])
    /\ \E size \in Capacities, reallocOk \in BOOLEAN :
        obj' = Set(h, vector_reserve(obj[h], size, reallocOk).v)
    /\ UNCHANGED <<family, slots, nodes, aborted>>

VectorTrim(h) ==
    /\ ~aborted /\ family = "vector" /\ IsObject(obj[h])
    /\ \E reallocOk \in BOOLEAN : obj' = Set(h, vector_trim(obj[h], reallocOk).v)
    /\ UNCHANGED <<family, slots, nodes, aborted>>

VectorInsert(h) ==
    /\ ~aborted /\ family = "vector" /\ IsObject(obj[h])
    /\ \E index \in Indexes(obj[h].size), data \in Pointers, orc \in InsertOracles :
        LET r == vector_insert(obj[h], slots, index, data, orc) IN
        Commit(Set(h, r.v), r.slots, nodes)
    /\ UNCHANGED <<family, aborted>>

VectorRemove(h) ==
    /\ ~aborted /\ family = "vector" /\ IsObject(obj[h])
    /\ \E index \in Indexes(obj[h].size), destination \in Destinations, orc \in GetOracles :
        LET r == vector_remove(obj[h], slots, index, destination, orc) IN
        Commit(Set(h, r.v), r.slots, nodes)
    /\ UNCHANGED <<family, aborted>>

VectorRemoveall(h) ==
    /\ ~aborted /\ family = "vector" /\ IsObject(obj[h])
    /\ \E remove \in Pointers :
        LET r == vector_removeall(obj[h], slots, remove) IN
        Commit(Set(h, r.v), r.slots, nodes)
    /\ UNCHANGED <<family, aborted>>

VectorGetTakes(h) ==
    /\ ~aborted /\ family = "vector" /\ IsObject(obj[h])
    /\ \E index \in Indexes(obj[h].size), destination \in Destinations, orc \in GetOracles :
        LET r == vector_remove(obj[h], slots, index, destination, orc) IN
        Commit(Set(h, r.v), r.slots, nodes)
    /\ UNCHANGED <<family, aborted>>

\* a read: the result goes to the caller's destination, the state stays
VectorGet(h) ==
    /\ ~aborted /\ family = "vector" /\ IsObject(obj[h])
    /\ \E index \in Indexes(obj[h].size), destination \in Destinations, orc \in GetOracles :
        vector_get(obj[h], slots, index, destination, orc).ok \in BOOLEAN
    /\ UNCHANGED vars

VectorSearch(h) ==
    /\ ~aborted /\ family = "vector" /\ IsObject(obj[h])
    /\ \E key \in Pointers : vector_search(obj[h], slots, key).index \in 0..SIZE_MAX
    /\ UNCHANGED vars

VectorContains(h) ==
    /\ ~aborted /\ family = "vector" /\ IsObject(obj[h])
    /\ \E key \in Pointers : vector_contains(obj[h], slots, key).found \in BOOLEAN
    /\ UNCHANGED vars

VectorSet(h) ==
    /\ ~aborted /\ family = "vector" /\ IsObject(obj[h])
    /\ \E index \in Indexes(obj[h].size), data \in Pointers, orc \in SetOracles :
        LET r == vector_set(obj[h], slots, index, data, orc) IN
        Commit(Set(h, r.v), r.slots, nodes)
    /\ UNCHANGED <<family, aborted>>

\* a signed overflow in _qsort_compare is undefined: the product wraps, or the program dies
\* in the middle of the sort and what it was doing to the array is lost with it
VectorSort(h) ==
    /\ ~aborted /\ family = "vector" /\ IsObject(obj[h])
    /\ \E reverse \in BOOLEAN, cmp \in Comparators :
        \/ /\ \E r \in vector_sort(obj[h], slots, reverse, cmp) :
                  Commit(Set(h, r.v), r.slots, nodes)
           /\ UNCHANGED aborted
        \/ /\ SortOverflows(obj[h], slots, reverse, cmp)
           /\ aborted' = TRUE
           /\ UNCHANGED <<obj, slots, nodes>>
    /\ UNCHANGED family

VectorNext ==
    \/ VectorConstruct
    \/ \E h \in Handles : VectorClone(h)
    \/ \E h \in Handles : VectorReverse(h)
    \/ \E h \in Handles : VectorFree(h)
    \/ \E h \in Handles : VectorClear(h)
    \/ \E h \in Handles : VectorReserve(h)
    \/ \E h \in Handles : VectorTrim(h)
    \/ \E h \in Handles : VectorInsert(h)
    \/ \E h \in Handles : VectorRemove(h)
    \/ \E h \in Handles : VectorRemoveall(h)
    \/ \E h \in Handles : VectorGet(h)
    \/ \E h \in Handles : VectorSearch(h)
    \/ \E h \in Handles : VectorContains(h)
    \/ \E h \in Handles : VectorSet(h)
    \/ \E h \in Handles : VectorSort(h)

(***************************************************************************)
(* source/list/list.c.  A list is [front, back, size, width, limit, copy]; *)
(* its nodes live in the node heap and own one slot each.  The helpers     *)
(* _value_copy, _value_construct, _node_construct and _node_free have the  *)
(* same text in stack.c, queue.c and deque.c (the queue and deque          *)
(* allocate the value inside _node_construct) and serve those too.         *)
(* A call yields a record: the container and the heaps as the call leaves  *)
(* them, what it returns (ok), errno (err) and what it wrote to the        *)
(* caller's destination (out).                                             *)
(***************************************************************************)
_value_copy(c, value, destination, hookOk) ==
    IF value = NULL \/ destination = NULL THEN [ok |-> FALSE, err |-> "EINVAL", out |-> NULL]
    ELSE IF c.copy THEN
        IF hookOk THEN [ok |-> TRUE, err |-> "none", out |-> value]
        ELSE [ok |-> FALSE, err |-> "EHOOK", out |-> NULL]
    ELSE [ok |-> TRUE, err |-> "none", out |-> value]

_value_construct(c, heap, value, orc) ==
    LET Copied(new, copied) ==
            IF ~copied.ok THEN [new |-> NULL, slots |-> heap, err |-> copied.err]
            ELSE [new |-> new,
                  slots |-> [heap EXCEPT ![new] = [live |-> TRUE, val |-> copied.out]],
                  err |-> "none"]
        Allocated(new) ==
            IF new = NULL THEN [new |-> NULL, slots |-> heap, err |-> "ENOMEM"]
            ELSE Copied(new, _value_copy(c, value, new, orc.hook))
    IN IF value = NULL THEN [new |-> NULL, slots |-> heap, err |-> "EINVAL"]
       ELSE Allocated(malloc(heap, orc.malloc))

_value_free(c, heap, value) == free(heap, value)

_node_construct(c, heapNodes, heapSlots, value, orc) ==
    LET Failed(err) == [new |-> NULL, nodes |-> heapNodes, slots |-> heapSlots, err |-> err]
        Valued(new, v) ==
            IF v.new = NULL THEN Failed(v.err)
            ELSE [new |-> new,
                  nodes |-> [heapNodes EXCEPT ![new] = [live |-> TRUE, value |-> v.new,
                                                        next |-> NULL, previous |-> NULL]],
                  slots |-> v.slots, err |-> "none"]
        Allocated(new) ==
            IF new = NULL THEN Failed("ENOMEM")
            ELSE Valued(new, _value_construct(c, heapSlots, value, orc))
    IN IF value = NULL THEN Failed("EINVAL") ELSE Allocated(malloc(heapNodes, orc.node))

_node_free(c, heapNodes, heapSlots, node) ==
    IF node = NULL THEN [nodes |-> heapNodes, slots |-> heapSlots]
    ELSE [nodes |-> free(heapNodes, node),
          slots |-> _value_free(c, heapSlots, heapNodes[node].value)]

\* the value a node holds
ValueOf(heapNodes, heapSlots, node) == heapSlots[heapNodes[node].value].val

list_empty(list) == list.front = NULL
\* a list that is full only once it holds more than its limit
list_full_late(list) == list.size > list.limit
list_full(list) == list.size = list.limit

RECURSIVE Follow(_, _, _, _)
\* count steps from node along next (forward) or previous
Follow(heapNodes, node, count, forward) ==
    IF count = 0 THEN node
    ELSE Follow(heapNodes, IF forward THEN heapNodes[node].next ELSE heapNodes[node].previous,
                count - 1, forward)

\* _node_search that takes from the front the steps counted for the walk from the back
_node_search_front(list, heapNodes, index) ==
    IF index >= list.size THEN NULL
    ELSE Follow(heapNodes, list.front, list.size - index - 1, TRUE)

_node_search(list, heapNodes, index) ==
    IF index >= list.size THEN NULL
    ELSE IF index < list.size \div 2 THEN Follow(heapNodes, list.front, index, TRUE)
    ELSE Follow(heapNodes, list.back, list.size - index - 1, FALSE)

\* _node_remove that unlinks and frees the back node, whichever node it is given
_node_remove_back(list, heapNodes, heapSlots, node) ==
    LET Freed_(unlinked, f) ==
            [l |-> [unlinked.l EXCEPT !.size = @ - 1], nodes |-> f.nodes, slots |-> f.slots,
             ok |-> TRUE, err |-> "none"]
        Unlinked(unlinked) ==
            Freed_(unlinked, _node_free(list, unlinked.nodes, heapSlots, list.back))
    IN Unlinked(
        IF list.size = 1
        THEN [l |-> [list EXCEPT !.front = NULL, !.back = NULL], nodes |-> heapNodes]
        ELSE [l |-> [list EXCEPT !.back = heapNodes[list.back].previous],
              nodes |-> [heapNodes EXCEPT ![heapNodes[list.back].previous].next = NULL]])

_node_remove(list, heapNodes, heapSlots, node) ==
    LET Freed_(unlinked, f) ==
            [l |-> [unlinked.l EXCEPT !.size = @ - 1], nodes |-> f.nodes, slots |-> f.slots,
             ok |-> TRUE, err |-> "none"]
        Unlinked(unlinked) ==
            Freed_(unlinked, _node_free(list, unlinked.nodes, heapSlots, node))
    IN Unlinked(
        IF list.size = 1
        THEN [l |-> [list EXCEPT !.front = NULL, !.back = NULL], nodes |-> heapNodes]
        ELSE IF node = list.front
        THEN [l |-> [list EXCEPT !.front = heapNodes[list.front].next],
              nodes |-> [heapNodes EXCEPT ![heapNodes[list.front].next].previous = NULL]]
        ELSE IF node = list.back
        THEN [l |-> [list EXCEPT !.back = heapNodes[list.back].previous],
              nodes |-> [heapNodes EXCEPT ![heapNodes[list.back].previous].next = NULL]]
        ELSE [l |-> list,
              nodes |-> [heapNodes EXCEPT
                            ![heapNodes[node].previous].next = heapNodes[node].next,
                            ![heapNodes[node].next].previous = heapNodes[node].previous]])

RECURSIVE list_clear_loop(_, _, _, _)
\* while (node != NULL) { remove = node; node = node->next; _node_free(list, remove); }
list_clear_loop(list, heapNodes, heapSlots, node) ==
    LET Next(f) == list_clear_loop(list, f.nodes, f.slots, heapNodes[node].next)
    IN IF node = NULL THEN [nodes |-> heapNodes, slots |-> heapSlots]
       ELSE Next(_node_free(list, heapNodes, heapSlots, node))

\* list_clear that forgets to reset back
list_clear_front(list, heapNodes, heapSlots) ==
    LET Cleared(f) ==
            [l |-> [list EXCEPT !.front = NULL, !.size = 0],
             nodes |-> f.nodes, slots |-> f.slots, ok |-> TRUE, err |-> "none"]
    IN Cleared(list_clear_loop(list, heapNodes, heapSlots, list.front))

list_clear(list, heapNodes, heapSlots) ==
    LET Cleared(f) ==
            [l |-> [list EXCEPT !.front = NULL, !.back = NULL, !.size = 0],
             nodes |-> f.nodes, slots |-> f.slots, ok |-> TRUE, err |-> "none"]
    IN Cleared(list_clear_loop(list, heapNodes, heapSlots, list.front))

list_construct(width, limit, copy, mallocOk) ==
    IF width = 0 \/ limit = 0 THEN [l |-> NoObject, err |-> "EINVAL"]
    ELSE IF ~mallocOk THEN [l |-> NoObject, err |-> "ENOMEM"]
    ELSE [l |-> [front |-> NULL, back |-> NULL, size |-> 0, width |-> width, limit |-> limit,
                 copy |-> copy],
          err |-> "none"]

\* list_clear, free(list)
list_free(list, heapNodes, heapSlots) == list_clear_loop(list, heapNodes, heapSlots, list.front)

\* the last index whose element compares equal to key
RECURSIVE list_search_back(_, _, _, _, _)
list_search_back(heapNodes, heapSlots, node, key, i) ==
    IF node = NULL THEN SIZE_MAX
    ELSE LET later == list_search_back(heapNodes, heapSlots, heapNodes[node].next, key, i + 1)
         IN IF later # SIZE_MAX THEN later
            ELSE IF compare(ValueOf(heapNodes, heapSlots, node), key) = 0 THEN i ELSE SIZE_MAX

RECURSIVE list_search_loop(_, _, _, _, _)
\* for (node = list->front; node != NULL; node = node->next, i++), returning i at a match
list_search_loop(heapNodes, heapSlots, node, key, i) ==
    IF node = NULL THEN SIZE_MAX
    ELSE IF compare(ValueOf(heapNodes, heapSlots, node), key) = 0 THEN i
    ELSE list_search_loop(heapNodes, heapSlots, heapNodes[node].next, key, i + 1)

list_search(list, heapNodes, heapSlots, key) ==
    IF key = NULL THEN [index |-> SIZE_MAX, err |-> "EINVAL"]
    ELSE [index |-> list_search_loop(heapNodes, heapSlots, list.front, key, 0), err |-> "none"]

list_contains(list, heapNodes, heapSlots, key) ==
    [found |-> list_search(list, heapNodes, heapSlots, key).index # SIZE_MAX,
     err |-> list_search(list, heapNodes, heapSlots, key).err]

list_get(list, heapNodes, heapSlots, index, destination, orc) ==
    IF index >= list.size \/ destination = NULL
    THEN [ok |-> FALSE, err |-> "EINVAL", out |-> NULL]
    ELSE _value_copy(list, ValueOf(heapNodes, heapSlots, _node_search(list, heapNodes, index)),
                     destination, orc.hook)

list_insert(list, heapNodes, heapSlots, index, value, orc) ==
    LET Failed(err) ==
            [l |-> list, nodes |-> heapNodes, slots |-> heapSlots, ok |-> FALSE, err |-> err]
        Between(new, linked, node) ==
            [linked EXCEPT ![new].previous = linked[node].previous, ![new].next = node,
                           ![linked[node].previous].next = new, ![node].previous = new]
        Link(new, linked) ==
            IF list_empty(list)
            THEN [l |-> [list EXCEPT !.front = new, !.back = new], nodes |-> linked]
            ELSE IF index = 0
            THEN [l |-> [list EXCEPT !.front = new],
                  nodes |-> [linked EXCEPT ![new].next = list.front,
                                           ![list.front].previous = new]]
            ELSE IF index = list.size
            THEN [l |-> [list EXCEPT !.back = new],
                  nodes |-> [linked EXCEPT ![new].previous = list.back,
                                           ![list.back].next = new]]
            ELSE [l |-> list, nodes |-> Between(new, linked, _node_search(list, linked, index))]
        Linked(c, linked) ==
            [l |-> [linked.l EXCEPT !.size = @ + 1], nodes |-> linked.nodes, slots |-> c.slots,
             ok |-> TRUE, err |-> "none"]
        Constructed(c) ==
            IF c.new = NULL THEN Failed(c.err) ELSE Linked(c, Link(c.new, c.nodes))
    IN IF index > list.size \/ value = NULL THEN Failed("EINVAL")
       ELSE IF list_full(list) THEN Failed("ENOSPC")
       ELSE Constructed(_node_construct(list, heapNodes, heapSlots, value, orc))

list_remove(list, heapNodes, heapSlots, index, destination, orc) ==
    LET Failed(err) ==
            [l |-> list, nodes |-> heapNodes, slots |-> heapSlots, ok |-> FALSE, err |-> err,
             out |-> NULL]
        Removed(r, copied) ==
            [l |-> r.l, nodes |-> r.nodes, slots |-> r.slots, ok |-> TRUE, err |-> "none",
             out |-> copied.out]
        Copied(remove, copied) ==
            IF ~copied.ok THEN Failed(copied.err)
            ELSE Removed(_node_remove(list, heapNodes, heapSlots, remove), copied)
        Found(remove) ==
            Copied(remove,
                   IF destination # NULL
                   THEN _value_copy(list, ValueOf(heapNodes, heapSlots, remove), destination,
                                    orc.hook)
                   ELSE [ok |-> TRUE, err |-> "none", out |-> NULL])
    IN IF index >= list.size THEN Failed("EINVAL")
       ELSE Found(_node_search(list, heapNodes, index))

RECURSIVE list_removeall_first(_, _, _, _, _)
\* the loop of list_removeall, left at the first match removed
list_removeall_first(list, heapNodes, heapSlots, node, remove) ==
    IF node = NULL
    THEN [l |-> list, nodes |-> heapNodes, slots |-> heapSlots, ok |-> TRUE, err |-> "none"]
    ELSE IF compare(ValueOf(heapNodes, heapSlots, node), remove) = 0
    THEN _node_remove(list, heapNodes, heapSlots, node)
    ELSE list_removeall_first(list, heapNodes, heapSlots, heapNodes[node].next, remove)

RECURSIVE list_removeall_loop(_, _, _, _, _)
\* while (node != NULL) { temporary = node; node = node->next; if (equal) _node_remove(temporary); }
list_removeall_loop(list, heapNodes, heapSlots, node, remove) ==
    LET Removed(r) == list_removeall_loop(r.l, r.nodes, r.slots, heapNodes[node].next, remove)
    IN IF node = NULL
       THEN [l |-> list, nodes |-> heapNodes, slots |-> heapSlots, ok |-> TRUE, err |-> "none"]
       ELSE IF compare(ValueOf(heapNodes, heapSlots, node), remove) = 0
       THEN Removed(_node_remove(list, heapNodes, heapSlots, node))
       ELSE list_removeall_loop(list, heapNodes, heapSlots, heapNodes[node].next, remove)

list_removeall(list, heapNodes, heapSlots, remove) ==
    IF remove = NULL
    THEN [l |-> list, nodes |-> heapNodes, slots |-> heapSlots, ok |-> FALSE, err |-> "EINVAL"]
    ELSE list_removeall_loop(list, heapNodes, heapSlots, list.front, remove)

list_set(list, heapNodes, heapSlots, index, value, orc) ==
    LET Failed(err) ==
            [l |-> list, nodes |-> heapNodes, slots |-> heapSlots, ok |-> FALSE, err |-> err]
        Replaced(c, node) ==
            [l |-> list, nodes |-> [heapNodes EXCEPT ![node].value = c.new],
             slots |-> _value_free(list, c.slots, heapNodes[node].value),
             ok |-> TRUE, err |-> "none"]
        Constructed(c) ==
            IF c.new = NULL THEN Failed(c.err)
            ELSE Replaced(c, _node_search(list, heapNodes, index))
    IN IF index >= list.size \/ value = NULL THEN Failed("EINVAL")
       ELSE Constructed(_value_construct(list, heapSlots, value, orc))

RECURSIVE list_copy_loop(_, _, _, _, _, _, _, _)
\* for (node = list->front; node != NULL; node = node->next)
\*     if (list_insert(copy, copy->size, node->value) == false) { list_free(copy); return NULL; }
\* list_reverse inserts at 0 instead (atBack false)
list_copy_loop(copy, heapNodes, heapSlots, node, i, atBack, failAt, orc) ==
    LET Released(f, err) == [l |-> NoObject, nodes |-> f.nodes, slots |-> f.slots, err |-> err]
        Inserted(r) ==
            IF ~r.ok THEN Released(list_free(r.l, r.nodes, r.slots), r.err)
            ELSE list_copy_loop(r.l, r.nodes, r.slots, heapNodes[node].next, i + 1, atBack,
                                failAt, orc)
    IN IF node = NULL
       THEN [l |-> copy, nodes |-> heapNodes, slots |-> heapSlots, err |-> "none"]
       ELSE Inserted(list_insert(copy, heapNodes, heapSlots, IF atBack THEN copy.size ELSE 0,
                                 ValueOf(heapNodes, heapSlots, node), OracleAt(i, failAt, orc)))

list_copy(list, heapNodes, heapSlots, sc) ==
    LET Constructed(c) ==
            IF c.l = NoObject
            THEN [l |-> NoObject, nodes |-> heapNodes, slots |-> heapSlots, err |-> c.err]
            ELSE list_copy_loop(c.l, heapNodes, heapSlots, list.front, 1, TRUE, sc.failAt, sc.orc)
    IN Constructed(list_construct(list.width, list.limit, list.copy, sc.mallocOk))

list_reverse(list, heapNodes, heapSlots, sc) ==
    LET Constructed(c) ==
            IF c.l = NoObject
            THEN [l |-> NoObject, nodes |-> heapNodes, slots |-> heapSlots, err |-> c.err]
            ELSE list_copy_loop(c.l, heapNodes, heapSlots, list.front, 1, FALSE, sc.failAt,
                                sc.orc)
    IN Constructed(list_construct(list.width, list.limit, list.copy, sc.mallocOk))

(***************************************************************************)
(* Merge sort of the node chain: source/list/list.c, and the variant of    *)
(* unnamed/part_004 whose list_sort takes a reverse flag.                  *)
(***************************************************************************)
RECURSIVE _list_split_loop(_, _, _)
\* while (fast->next != NULL && fast->next->next != NULL) { fast = fast->next->next; slow = slow->next; }
_list_split_loop(heapNodes, fast, slow) ==
    IF heapNodes[fast].next # NULL /\ heapNodes[heapNodes[fast].next].next # NULL
    THEN _list_split_loop(heapNodes, heapNodes[heapNodes[fast].next].next, heapNodes[slow].next)
    ELSE slow

\* _list_split that detaches all but the first node
_list_split_first(heapNodes, front) ==
    [nodes |-> [heapNodes EXCEPT ![front].next = NULL], head |-> heapNodes[front].next]

_list_split(heapNodes, front) ==
    LET slow == _list_split_loop(heapNodes, front, front) IN
    [nodes |-> [heapNodes EXCEPT ![slow].next = NULL], head |-> heapNodes[slow].next]

RECURSIVE _list_merge_greater(_, _, _, _)
\* the merge that consumes the greater head first
_list_merge_greater(heapNodes, heapSlots, first, second) ==
    IF first = NULL THEN [nodes |-> heapNodes, head |-> second]
    ELSE IF second = NULL THEN [nodes |-> heapNodes, head |-> first]
    ELSE IF compare(ValueOf(heapNodes, heapSlots, first), ValueOf(heapNodes, heapSlots, second)) > 0
    THEN LET m == _list_merge_greater(heapNodes, heapSlots, heapNodes[first].next, second) IN
         [nodes |-> [[[m.nodes EXCEPT ![first].next = m.head]
                               EXCEPT ![m.head].previous = first]
                               EXCEPT ![first].previous = NULL],
          head |-> first]
    ELSE LET m == _list_merge_greater(heapNodes, heapSlots, first, heapNodes[second].next) IN
         [nodes |-> [[[m.nodes EXCEPT ![second].next = m.head]
                               EXCEPT ![m.head].previous = second]
                               EXCEPT ![second].previous = NULL],
          head |-> second]

RECURSIVE _list_merge(_, _, _, _)
_list_merge(heapNodes, heapSlots, first, second) ==
    IF first = NULL THEN [nodes |-> heapNodes, head |-> second]
    ELSE IF second = NULL THEN [nodes |-> heapNodes, head |-> first]
    ELSE IF compare(ValueOf(heapNodes, heapSlots, first), ValueOf(heapNodes, heapSlots, second)) < 0
    THEN LET m == _list_merge(heapNodes, heapSlots, heapNodes[first].next, second) IN
         [nodes |-> [[[m.nodes EXCEPT ![first].next = m.head]
                               EXCEPT ![m.head].previous = first]
                               EXCEPT ![first].previous = NULL],
          head |-> first]
    ELSE LET m == _list_merge(heapNodes, heapSlots, first, heapNodes[second].next) IN
         [nodes |-> [[[m.nodes EXCEPT ![second].next = m.head]
                               EXCEPT ![m.head].previous = second]
                               EXCEPT ![second].previous = NULL],
          head |-> second]

RECURSIVE _list_mergesort(_, _, _)
_list_mergesort(heapNodes, heapSlots, front) ==
    IF front = NULL \/ heapNodes[front].next = NULL THEN [nodes |-> heapNodes, head |-> front]
    ELSE LET s == _list_split(heapNodes, front)
             a == _list_mergesort(s.nodes, heapSlots, front)
             b == _list_mergesort(a.nodes, heapSlots, s.head)
         IN _list_merge(b.nodes, heapSlots, a.head, b.head)

\* list_sort that leaves back where it was
RecoverBack_kept(heapNodes, node, back) == back

RECURSIVE RecoverBack(_, _, _)
\* for (node = list->front; node != NULL; node = node->next) list->back = node;
RecoverBack(heapNodes, node, back) ==
    IF node = NULL THEN back ELSE RecoverBack(heapNodes, heapNodes[node].next, node)

list_sort(list, heapNodes, heapSlots) ==
    LET m == _list_mergesort(heapNodes, heapSlots, list.front) IN
    [l |-> [list EXCEPT !.front = m.head, !.back = RecoverBack(m.nodes, m.head, list.back)],
     nodes |-> m.nodes, slots |-> heapSlots, ok |-> TRUE, err |-> "none"]

\* (reverse ? -1 : 1)
Sign(reverse) == IF reverse THEN 0 - 1 ELSE 1

RECURSIVE _list_merge_reverse(_, _, _, _, _, _)
\* part_004: _list_merge(first, second, reverse, compare); undefined tells that a product
\* (reverse ? -1 : 1) * compare(...) has overflowed int, which wraps it where it does not trap
_list_merge_reverse(heapNodes, heapSlots, first, second, reverse, cmp) ==
    LET product == Sign(reverse) * Compared(cmp, ValueOf(heapNodes, heapSlots, first),
                                            ValueOf(heapNodes, heapSlots, second))
        Merged(m, smaller) ==
            [nodes |-> [[[m.nodes EXCEPT ![smaller].next = m.head]
                                  EXCEPT ![m.head].previous = smaller]
                                  EXCEPT ![smaller].previous = NULL],
             head |-> smaller, undefined |-> m.undefined \/ product # AsInt(product)]
    IN IF first = NULL THEN [nodes |-> heapNodes, head |-> second, undefined |-> FALSE]
       ELSE IF second = NULL THEN [nodes |-> heapNodes, head |-> first, undefined |-> FALSE]
       ELSE IF AsInt(product) < 0
       THEN Merged(_list_merge_reverse(heapNodes, heapSlots, heapNodes[first].next, second,
                                       reverse, cmp), first)
       ELSE Merged(_list_merge_reverse(heapNodes, heapSlots, first, heapNodes[second].next,
                                       reverse, cmp), second)

RECURSIVE _list_mergesort_reverse(_, _, _, _, _)
\* part_004: _list_mergesort(front, reverse, compare)
_list_mergesort_reverse(heapNodes, heapSlots, front, reverse, cmp) ==
    LET Merged(a, b, m) ==
            [nodes |-> m.nodes, head |-> m.head,
             undefined |-> a.undefined \/ b.undefined \/ m.undefined]
        Second(a, b) ==
            Merged(a, b, _list_merge_reverse(b.nodes, heapSlots, a.head, b.head, reverse, cmp))
        First(s, a) ==
            Second(a, _list_mergesort_reverse(a.nodes, heapSlots, s.head, reverse, cmp))
        Split(s) == First(s, _list_mergesort_reverse(s.nodes, heapSlots, front, reverse, cmp))
    IN IF front = NULL \/ heapNodes[front].next = NULL
       THEN [nodes |-> heapNodes, head |-> front, undefined |-> FALSE]
       ELSE Split(_list_split(heapNodes, front))

\* part_004: list_sort(list, reverse, compare)
list_sort_reverse(list, heapNodes, heapSlots, reverse, cmp) ==
    LET Sorted(m) ==
            [l |-> [list EXCEPT !.front = m.head,
                                !.back = RecoverBack(m.nodes, m.head, list.back)],
             nodes |-> m.nodes, slots |-> heapSlots, ok |-> TRUE, err |-> "none",
             undefined |-> m.undefined]
    IN Sorted(_list_mergesort_reverse(heapNodes, heapSlots, list.front, reverse, cmp))
(***************************************************************************)
(* Calls of the list interface                                             *)
(***************************************************************************)
\* the failures a node insertion can meet: node allocation, value allocation, copy hook
NodeOracles == {o \in Oracles : o.realloc}
\* a copy of a node-based container: no buffer allocation
NodeCopyScenarios(size) == {sc \in CopyScenarios(size, NodeOracles) : sc.dataOk}
NodeLimits == 0..MaxLimit

ListConstruct ==
    /\ ~aborted /\ family = "list" /\ obj[1] = NoObject /\ obj[2] = NoObject
    /\ \E width \in Widths, limit \in NodeLimits, copy \in BOOLEAN, mallocOk \in BOOLEAN :
        obj' = Set(1, list_construct(width, limit, copy, mallocOk).l)
    /\ UNCHANGED <<family, slots, nodes, aborted>>

ListCopy(h) ==
    /\ ~aborted /\ family = "list" /\ IsObject(obj[h]) /\ obj[Other(h)] = NoObject
    /\ \E sc \in NodeCopyScenarios(obj[h].size) :
        LET c == list_copy(obj[h], nodes, slots, sc) IN Commit(Set(Other(h), c.l), c.slots, c.nodes)
    /\ UNCHANGED <<family, aborted>>

ListReverse(h) ==
    /\ ~aborted /\ family = "list" /\ IsObject(obj[h]) /\ obj[Other(h)] = NoObject
    /\ \E sc \in NodeCopyScenarios(obj[h].size) :
        LET c == list_reverse(obj[h], nodes, slots, sc) IN
        Commit(Set(Other(h), c.l), c.slots, c.nodes)
    /\ UNCHANGED <<family, aborted>>

ListFree(h) ==
    /\ ~aborted /\ family = "list" /\ IsObject(obj[h])
    /\ LET f == list_free(obj[h], nodes, slots) IN Commit(Set(h, NoObject), f.slots, f.nodes)
    /\ UNCHANGED <<family, aborted>>

ListClear(h) ==
    /\ ~aborted /\ family = "list" /\ IsObject(obj[h])
    /\ LET r == list_clear(obj[h], nodes, slots) IN Commit(Set(h, r.l), r.slots, r.nodes)
    /\ UNCHANGED <<family, aborted>>

ListInsert(h) ==
    /\ ~aborted /\ family = "list" /\ IsObject(obj[h])
    /\ \E index \in Indexes(obj[h].size), value \in Pointers, orc \in NodeOracles :
        LET r == list_insert(obj[h], nodes, slots, index, value, orc) IN
        Commit(Set(h, r.l), r.slots, r.nodes)
    /\ UNCHANGED <<family, aborted>>

ListRemove(h) ==
    /\ ~aborted /\ family = "list" /\ IsObject(obj[h])
    /\ \E index \in Indexes(obj[h].size), destination \in Destinations, orc \in GetOracles :
        LET r == list_remove(obj[h], nodes, slots, index, destination, orc) IN
        Commit(Set(h, r.l), r.slots, r.nodes)
    /\ UNCHANGED <<family, aborted>>

ListRemoveall(h) ==
    /\ ~aborted /\ family = "list" /\ IsObject(obj[h])
    /\ \E remove \in Pointers :
        LET r == list_removeall(obj[h], nodes, slots, remove) IN
        Commit(Set(h, r.l), r.slots, r.nodes)
    /\ UNCHANGED <<family, aborted>>

\* a read: the result goes to the caller's destination, the state stays
ListGet(h) ==
    /\ ~aborted /\ family = "list" /\ IsObject(obj[h])
    /\ \E index \in Indexes(obj[h].size), destination \in Destinations, orc \in GetOracles :
        list_get(obj[h], nodes, slots, index, destination, orc).ok \in BOOLEAN
    /\ UNCHANGED vars

ListSearch(h) ==
    /\ ~aborted /\ family = "list" /\ IsObject(obj[h])
    /\ \E key \in Pointers : list_search(obj[h], nodes, slots, key).index \in 0..SIZE_MAX
    /\ UNCHANGED vars

ListContains(h) ==
    /\ ~aborted /\ family = "list" /\ IsObject(obj[h])
    /\ \E key \in Pointers : list_contains(obj[h], nodes, slots, key).found \in BOOLEAN
    /\ UNCHANGED vars

ListSet(h) ==
    /\ ~aborted /\ family = "list" /\ IsObject(obj[h])
    /\ \E index \in Indexes(obj[h].size), value \in Pointers, orc \in SetOracles :
        LET r == list_set(obj[h], nodes, slots, index, value, orc) IN
        Commit(Set(h, r.l), r.slots, r.nodes)
    /\ UNCHANGED <<family, aborted>>

ListSort(h) ==
    /\ ~aborted /\ family = "list" /\ IsObject(obj[h])
    /\ LET r == list_sort(obj[h], nodes, slots) IN Commit(Set(h, r.l), r.slots, r.nodes)
    /\ UNCHANGED <<family, aborted>>

\* a signed overflow in the merge is undefined: the product wraps, or the program dies in
\* the middle of the sort and what it was doing to the chain is lost with it
ListSortReverse(h) ==
    /\ ~aborted /\ family = "list" /\ IsObject(obj[h])
    /\ \E reverse \in BOOLEAN, cmp \in Comparators :
        LET r == list_sort_reverse(obj[h], nodes, slots, reverse, cmp) IN
        \/ /\ Commit(Set(h, r.l), r.slots, r.nodes)
           /\ UNCHANGED aborted
        \/ /\ r.undefined
           /\ aborted' = TRUE
           /\ UNCHANGED <<obj, slots, nodes>>
    /\ UNCHANGED family

ListNext ==
    \/ ListConstruct
    \/ \E h \in Handles : ListCopy(h)
    \/ \E h \in Handles : ListReverse(h)
    \/ \E h \in Handles : ListFree(h)
    \/ \E h \in Handles : ListClear(h)
    \/ \E h \in Handles : ListInsert(h)
    \/ \E h \in Handles : ListRemove(h)
    \/ \E h \in Handles : ListRemoveall(h)
    \/ \E h \in Handles : ListGet(h)
    \/ \E h \in Handles : ListSearch(h)
    \/ \E h \in Handles : ListContains(h)
    \/ \E h \in Handles : ListSet(h)
    \/ \E h \in Handles : ListSort(h)
    \/ \E h \in Handles : ListSortReverse(h)

(***************************************************************************)
(* source/stack/stack.c (the variant with stack_copy).  A stack is         *)
(* [size, width, limit, capacity, growth, values, buf, copy]: values is    *)
(* the used part of the slot array, buf tells whether the array exists.    *)
(***************************************************************************)
stack_empty(stack) == stack.size = 0
stack_full(stack) == stack.size = stack.limit

RECURSIVE stack_clear_loop(_, _, _)
\* for (i = 0; i < stack->size; i++) _value_free(stack, stack->values[i])
stack_clear_loop(stack, heap, i) ==
    IF i < stack.size THEN stack_clear_loop(stack, _value_free(stack, heap, stack.values[i + 1]), i + 1)
    ELSE heap

stack_clear(stack, heap) ==
    [s |-> [stack EXCEPT !.size = 0, !.values = <<>>], slots |-> stack_clear_loop(stack, heap, 0),
     ok |-> TRUE, err |-> "none"]

\* stack_free of a stack whose array allocation failed: values is NULL, only the stack is freed
stack_construct(width, limit, capacity, growth, copy, mallocOk, valuesOk) ==
    IF width = 0 \/ limit = 0 \/ limit > STACK_LIMIT \/ capacity > limit \/ growth < IncrementMin
    THEN [s |-> NoObject, err |-> "EINVAL"]
    ELSE IF ~mallocOk THEN [s |-> NoObject, err |-> "ENOMEM"]
    ELSE IF capacity > 0 /\ ~valuesOk THEN [s |-> NoObject, err |-> "ENOMEM"]
    ELSE [s |-> [size |-> 0, width |-> width, limit |-> limit, capacity |-> capacity,
                 growth |-> growth, values |-> <<>>, buf |-> capacity > 0, copy |-> copy],
          err |-> "none"]

RECURSIVE stack_reserve_loop(_, _, _)
\* while (capacity < size) { capacity *= growth; clamp to limit; on overflow take limit }
stack_reserve_loop(stack, capacity, size) ==
    IF capacity < size THEN
        LET grown == Grow(capacity, stack.growth)
            next == IF grown > stack.limit THEN stack.limit
                    ELSE IF grown <= stack.capacity THEN stack.limit
                    ELSE grown
        IN stack_reserve_loop(stack, next, size)
    ELSE capacity

stack_reserve(stack, size, reallocOk) ==
    IF size > stack.limit THEN [s |-> stack, ok |-> FALSE, err |-> "EINVAL"]
    ELSE IF size <= stack.capacity THEN [s |-> stack, ok |-> TRUE, err |-> "none"]
    ELSE IF ~reallocOk THEN [s |-> stack, ok |-> FALSE, err |-> "ENOMEM"]
    ELSE [s |-> [stack EXCEPT
                    !.capacity = stack_reserve_loop(stack, IF @ = 0 THEN 1 ELSE @, size),
                    !.buf = TRUE],
          ok |-> TRUE, err |-> "none"]

stack_trim(stack, reallocOk) ==
    IF stack_empty(stack)
    THEN [s |-> [stack EXCEPT !.buf = FALSE, !.capacity = stack.size], ok |-> TRUE, err |-> "none"]
    ELSE IF ~reallocOk THEN [s |-> stack, ok |-> FALSE, err |-> "ENOMEM"]
    ELSE [s |-> [stack EXCEPT !.capacity = stack.size], ok |-> TRUE, err |-> "none"]

\* if (stack->values != NULL) { stack_clear; stack_trim; } free(stack)
stack_free(stack, heap) == IF stack.buf THEN stack_clear(stack, heap).slots ELSE heap

stack_peek(stack, heap, destination, orc) ==
    IF destination = NULL \/ stack_empty(stack) THEN [ok |-> FALSE, err |-> "EINVAL", out |-> NULL]
    ELSE _value_copy(stack, heap[stack.values[stack.size]].val, destination, orc.hook)

\* the pop that takes the oldest value instead of the newest
stack_pop_oldest(stack, heap, destination, orc) ==
    LET Failed(err) == [s |-> stack, slots |-> heap, ok |-> FALSE, err |-> err, out |-> NULL]
        Copied(copied) ==
            IF ~copied.ok THEN Failed(copied.err)
            ELSE [s |-> [stack EXCEPT !.size = @ - 1, !.values = Tail(@)],
                  slots |-> _value_free(stack, heap, stack.values[1]),
                  ok |-> TRUE, err |-> "none", out |-> copied.out]
    IN IF stack_empty(stack) THEN Failed("EINVAL")
       ELSE Copied(IF destination # NULL
                   THEN _value_copy(stack, heap[stack.values[1]].val, destination, orc.hook)
                   ELSE [ok |-> TRUE, err |-> "none", out |-> NULL])
stack_pop(stack, heap, destination, orc) ==
    LET Failed(err) == [s |-> stack, slots |-> heap, ok |-> FALSE, err |-> err, out |-> NULL]
        Peeked(peeked) ==
            IF ~peeked.ok THEN Failed(peeked.err)
            ELSE [s |-> [stack EXCEPT !.size = @ - 1, !.values = SubSeq(@, 1, stack.size - 1)],
                  slots |-> _value_free(stack, heap, stack.values[stack.size]),
                  ok |-> TRUE, err |-> "none", out |-> peeked.out]
    IN IF stack_empty(stack) THEN Failed("EINVAL")
       ELSE Peeked(IF destination # NULL THEN stack_peek(stack, heap, destination, orc)
                   ELSE [ok |-> TRUE, err |-> "none", out |-> NULL])

stack_push(stack, heap, value, orc) ==
    LET Failed(st, err) == [s |-> st, slots |-> heap, ok |-> FALSE, err |-> err]
        \* stack->values[stack->size++] = new, on the stack as stack_reserve left it
        Constructed(reserved, c) ==
            IF c.new = NULL THEN Failed(reserved, c.err)
            ELSE [s |-> [reserved EXCEPT !.values = Append(@, c.new), !.size = @ + 1],
                  slots |-> c.slots, ok |-> TRUE, err |-> "none"]
        Reserved(r) ==
            IF ~r.ok THEN Failed(stack, r.err)
            ELSE Constructed(r.s, _value_construct(r.s, heap, value, orc))
    IN IF value = NULL THEN Failed(stack, "EINVAL")
       ELSE IF stack_full(stack) THEN Failed(stack, "ENOSPC")
       ELSE Reserved(stack_reserve(stack, stack.size + 1, orc.realloc))

RECURSIVE stack_copy_loop(_, _, _, _, _, _, _)
\* for (i = 0; i < size; i++)
\*     if (stack_push(copy, values[i]) == false) { stack_free(copy); return NULL; }
\* stack_reverse runs i from size down to 1 (down true)
stack_copy_loop(stack, copy, heap, i, down, failAt, orc) ==
    LET Pushed(r) ==
            IF ~r.ok THEN [s |-> NoObject, slots |-> stack_free(r.s, r.slots), err |-> r.err]
            ELSE stack_copy_loop(stack, r.s, r.slots, i + 1, down, failAt, orc)
    IN IF i < stack.size
       THEN Pushed(stack_push(copy, heap,
                              heap[stack.values[IF down THEN stack.size - i ELSE i + 1]].val,
                              OracleAt(i + 1, failAt, orc)))
       ELSE [s |-> copy, slots |-> heap, err |-> "none"]

stack_copy(stack, heap, sc) ==
    LET Constructed(c) ==
            IF c.s = NoObject THEN [s |-> NoObject, slots |-> heap, err |-> c.err]
            ELSE stack_copy_loop(stack, c.s, heap, 0, FALSE, sc.failAt, sc.orc)
    IN Constructed(stack_construct(stack.width, stack.limit, stack.capacity, stack.growth,
                                   stack.copy, sc.mallocOk, sc.dataOk))

stack_reverse(stack, heap, sc) ==
    LET Constructed(c) ==
            IF c.s = NoObject THEN [s |-> NoObject, slots |-> heap, err |-> c.err]
            ELSE stack_copy_loop(stack, c.s, heap, 0, TRUE, sc.failAt, sc.orc)
    IN Constructed(stack_construct(stack.width, stack.limit, stack.capacity, stack.growth,
                                   stack.copy, sc.mallocOk, sc.dataOk))

(***************************************************************************)
(* Calls of the stack interface                                            *)
(***************************************************************************)
StackLimits == 0..MaxLimit \cup {STACK_LIMIT + 1}

StackConstruct ==
    /\ ~aborted /\ family = "stack" /\ obj[1] = NoObject /\ obj[2] = NoObject
    /\ \E width \in Widths, limit \in StackLimits, capacity \in Capacities,
          growth \in Increments, copy \in BOOLEAN, mallocOk \in BOOLEAN, valuesOk \in BOOLEAN :
        obj' = Set(1, stack_construct(width, limit, capacity, growth, copy, mallocOk, valuesOk).s)
    /\ UNCHANGED <<family, slots, nodes, aborted>>

StackCopy(h) ==
    /\ ~aborted /\ family = "stack" /\ IsObject(obj[h]) /\ obj[Other(h)] = NoObject
    /\ \E sc \in CopyScenarios(obj[h].size, InsertOracles) :
        LET c == stack_copy(obj[h], slots, sc) IN Commit(Set(Other(h), c.s), c.slots, nodes)
    /\ UNCHANGED <<family, aborted>>

StackReverse(h) ==
    /\ ~aborted /\ family = "stack" /\ IsObject(obj[h]) /\ obj[Other(h)] = NoObject
    /\ \E sc \in CopyScenarios(obj[h].size, InsertOracles) :
        LET c == stack_reverse(obj[h], slots, sc) IN Commit(Set(Other(h), c.s), c.slots, nodes)
    /\ UNCHANGED <<family, aborted>>

StackFree(h) ==
    /\ ~aborted /\ family = "stack" /\ IsObject(obj[h])
    /\ Commit(Set(h, NoObject), stack_free(obj[h], slots), nodes)
    /\ UNCHANGED <<family, aborted>>

StackClear(h) ==
    /\ ~aborted /\ family = "stack" /\ IsObject(obj[h])
    /\ LET r == stack_clear(obj[h], slots) IN Commit(Set(h, r.s), r.slots, nodes)
    /\ UNCHANGED <<family, aborted>>

StackReserve(h) ==
    /\ ~aborted /\ family = "stack" /\ IsObject(obj[h])
    /\ \E size \in Capacities, reallocOk \in BOOLEAN :
        obj' = Set(h, stack_reserve(obj[h], size, reallocOk).s)
    /\ UNCHANGED <<family, slots, nodes, aborted>>

StackTrim(h) ==
    /\ ~aborted /\ family = "stack" /\ IsObject(obj[h])
    /\ \E reallocOk \in BOOLEAN : obj' = Set(h, stack_trim(obj[h], reallocOk).s)
    /\ UNCHANGED <<family, slots, nodes, aborted>>

StackPush(h) ==
    /\ ~aborted /\ family = "stack" /\ IsObject(obj[h])
    /\ \E value \in Pointers, orc \in InsertOracles :
        LET r == stack_push(obj[h], slots, value, orc) IN Commit(Set(h, r.s), r.slots, nodes)
    /\ UNCHANGED <<family, aborted>>

StackPop(h) ==
    /\ ~aborted /\ family = "stack" /\ IsObject(obj[h])
    /\ \E destination \in Destinations, orc \in GetOracles :
        LET r == stack_pop(obj[h], slots, destination, orc) IN
        Commit(Set(h, r.s), r.slots, nodes)
    /\ UNCHANGED <<family, aborted>>

\* a read: the result goes to the caller's destination, the state stays
StackPeek(h) ==
    /\ ~aborted /\ family = "stack" /\ IsObject(obj[h])
    /\ \E destination \in Destinations, orc \in GetOracles :
        stack_peek(obj[h], slots, destination, orc).ok \in BOOLEAN
    /\ UNCHANGED vars

StackNext ==
    \/ StackConstruct
    \/ \E h \in Handles : StackCopy(h)
    \/ \E h \in Handles : StackReverse(h)
    \/ \E h \in Handles : StackFree(h)
    \/ \E h \in Handles : StackClear(h)
    \/ \E h \in Handles : StackReserve(h)
    \/ \E h \in Handles : StackTrim(h)
    \/ \E h \in Handles : StackPush(h)
    \/ \E h \in Handles : StackPop(h)
    \/ \E h \in Handles : StackPeek(h)

(***************************************************************************)
(* The stack of src/source/stack/stack.c, lines 392-773: the vector under  *)
(* the name of the stack (fields increment, data, clone), whose constructor *)
(* accepts an increment of 1.5.  stack_reserve is modelled one loop         *)
(* iteration at a time: obj[1] is the stack, obj[2] the frame of the        *)
(* running call (NoObject when none runs).                                  *)
(***************************************************************************)
\* 1.5, in halves
IncrementLow == 3

stack_construct_low(width, limit, capacity, increment, clone, mallocOk, dataOk) ==
    IF width = 0 \/ limit = 0 \/ limit > STACK_LIMIT \/ capacity > limit \/ increment < IncrementLow
    THEN [s |-> NoObject, err |-> "EINVAL"]
    ELSE IF ~mallocOk THEN [s |-> NoObject, err |-> "ENOMEM"]
    ELSE IF capacity > 0 /\ ~dataOk THEN [s |-> NoObject, err |-> "ENOMEM"]
    ELSE [s |-> [size |-> 0, width |-> width, limit |-> limit, capacity |-> capacity,
                 increment |-> increment, data |-> <<>>, buf |-> capacity > 0, clone |-> clone],
          err |-> "none"]

\* stack_reserve up to the loop: the argument check, the early return, the first candidate
stack_reserve_enter(stack, size) ==
    IF size > stack.limit THEN [returns |-> TRUE, ok |-> FALSE, err |-> "EINVAL", capacity |-> 0]
    ELSE IF size <= stack.capacity
    THEN [returns |-> TRUE, ok |-> TRUE, err |-> "none", capacity |-> 0]
    ELSE [returns |-> FALSE, ok |-> TRUE, err |-> "none",
          capacity |-> IF stack.capacity = 0 THEN 1 ELSE stack.capacity]

\* one iteration of while (capacity < size): capacity *= stack->increment (the product is a
\* double, stored back into a size_t), then the two clamps to the limit
stack_reserve_iteration(stack, capacity) ==
    LET grown == Grow(capacity, stack.increment)
    IN IF grown > stack.limit THEN stack.limit
       ELSE IF grown <= stack.capacity THEN stack.limit
       ELSE grown

\* stack_reserve after the loop: realloc, and the new capacity when it succeeds
stack_reserve_leave(stack, capacity, reallocOk) ==
    IF ~reallocOk THEN [s |-> stack, ok |-> FALSE, err |-> "ENOMEM"]
    ELSE [s |-> [stack EXCEPT !.capacity = capacity, !.buf = TRUE], ok |-> TRUE, err |-> "none"]

\* stack_trim of a stack that is empty: free(data), capacity = size
stack_trim_low(stack) == [stack EXCEPT !.buf = FALSE, !.capacity = stack.size]

\* the largest limit the caller of stack_reserve asks for
ReserveLimit == 5
ReserveLimits == 0..ReserveLimit
ReserveCapacities == 0..(ReserveLimit + 1)

\* a call of stack_reserve is under way
Reserving == family = "reserve" /\ obj[2] # NoObject

ReserveConstruct ==
    /\ family = "reserve" /\ obj[1] = NoObject
    /\ \E width \in Widths, limit \in ReserveLimits, capacity \in ReserveCapacities,
          increment \in Increments, mallocOk \in BOOLEAN :
        obj' = Set(1, stack_construct_low(width, limit, capacity, increment, FALSE, mallocOk,
                                          TRUE).s)
    /\ UNCHANGED <<family, slots, nodes, aborted>>

ReserveFree ==
    /\ family = "reserve" /\ obj[1] # NoObject /\ ~Reserving
    /\ obj' = Set(1, NoObject)
    /\ UNCHANGED <<family, slots, nodes, aborted>>

ReserveTrim ==
    /\ family = "reserve" /\ obj[1] # NoObject /\ ~Reserving
    /\ obj' = Set(1, stack_trim_low(obj[1]))
    /\ UNCHANGED <<family, slots, nodes, aborted>>

\* the caller enters stack_reserve(stack, size)
ReserveCall ==
    /\ family = "reserve" /\ obj[1] # NoObject /\ ~Reserving
    /\ \E size \in 0..(obj[1].limit + 1) :
        LET e == stack_reserve_enter(obj[1], size) IN
        IF e.returns THEN UNCHANGED obj
        ELSE obj' = Set(2, [size |-> size, capacity |-> e.capacity, iterations |-> 0])
    /\ UNCHANGED <<family, slots, nodes, aborted>>

\* the loop test holds: one more iteration (iterations counts them modulo 2)
ReserveIterate ==
    /\ Reserving /\ obj[2].capacity < obj[2].size
    /\ obj' = Set(2, [obj[2] EXCEPT !.capacity = stack_reserve_iteration(obj[1], @),
                                    !.iterations = 1 - @])
    /\ UNCHANGED <<family, slots, nodes, aborted>>

\* the loop test fails: realloc and return
ReserveReturn ==
    /\ Reserving /\ obj[2].capacity >= obj[2].size
    /\ \E reallocOk \in BOOLEAN :
        obj' = [obj EXCEPT ![1] = stack_reserve_leave(obj[1], obj[2].capacity, reallocOk).s,
                           ![2] = NoObject]
    /\ UNCHANGED <<family, slots, nodes, aborted>>

ReserveNext ==
    \/ ReserveConstruct
    \/ ReserveFree
    \/ ReserveTrim
    \/ ReserveCall
    \/ ReserveIterate
    \/ ReserveReturn

(***************************************************************************)
(* The bitarray of src/unnamed/part_001 (bitarray.c): size bits kept in     *)
(* buckets of one byte, bit index in bucket index / 8 at position           *)
(* index % 8.  A bitarray is a record [size, buckets, values], values the   *)
(* sequence of its bytes; a byte is a number in 0..255.                     *)
(***************************************************************************)
_BYTE == 8
_BITS == <<0, 1, 1, 2, 1, 2, 2, 3, 1, 2, 2, 3, 2, 3, 3, 4>>

\* bit k of the number x, and the byte whose bit k is f[k]
BitOf(x, k) == (x \div (2 ^ k)) % 2
ByteOf(f) ==
    f[0] + 2 * f[1] + 4 * f[2] + 8 * f[3] + 16 * f[4] + 32 * f[5] + 64 * f[6] + 128 * f[7]
\* the operators &, |, ^ on two bytes, and ~ on a byte stored back into a byte
ByteAnd(a, b) == ByteOf([k \in 0..7 |-> BitOf(a, k) * BitOf(b, k)])
ByteOr(a, b) == ByteOf([k \in 0..7 |-> IF BitOf(a, k) + BitOf(b, k) > 0 THEN 1 ELSE 0])
ByteXor(a, b) == ByteOf([k \in 0..7 |-> (BitOf(a, k) + BitOf(b, k)) % 2])
ByteNot(a) == 255 - a

\* byte & ~(0xFF << (size % 8)), computed in int: the bits of the byte where the shifted
\* mask has none
_byte_sanitize(bitarray, byte) ==
    LET mask == 255 * (2 ^ (bitarray.size % _BYTE))
    IN ByteOf([k \in 0..7 |-> BitOf(byte, k) * (1 - BitOf(mask, k))])

_bitarray_bigger(first, second) == IF first.size > second.size THEN first ELSE second

_bitarray_first(first, second) == first

_bitarray_smaller(first, second) == IF first.size <= second.size THEN first ELSE second

_bitarray_sanitize(bitarray) ==
    [bitarray EXCEPT !.values[bitarray.buckets] = _byte_sanitize(bitarray, @)]

bitarray_construct(size, mallocOk, callocOk) ==
    IF size = 0 THEN [b |-> NoObject, err |-> "EINVAL"]
    ELSE IF ~mallocOk \/ ~callocOk THEN [b |-> NoObject, err |-> "ENOMEM"]
    ELSE [b |-> [size |-> size, buckets |-> ((size - 1) \div _BYTE) + 1,
                 values |-> [i \in 1..(((size - 1) \div _BYTE) + 1) |-> 0]],
          err |-> "none"]

bitarray_copy(bitarray, mallocOk, callocOk) ==
    LET c == bitarray_construct(bitarray.size, mallocOk, callocOk)
    IN IF c.b = NoObject THEN c
       ELSE [b |-> [c.b EXCEPT !.values = [i \in 1..c.b.buckets |-> bitarray.values[i]]],
             err |-> "none"]

bitarray_clear(bitarray) == [bitarray EXCEPT !.values = [i \in 1..bitarray.buckets |-> 0]]

bitarray_fill(bitarray) ==
    _bitarray_sanitize([bitarray EXCEPT !.values = [i \in 1..bitarray.buckets |-> 255]])

\* bitarray_set, bitarray_reset, bitarray_flip: values[index / 8] op= 1 << (index % 8)
bitarray_set(bitarray, index) ==
    IF index >= bitarray.size THEN [b |-> bitarray, ok |-> FALSE, err |-> "EINVAL"]
    ELSE [b |-> [bitarray EXCEPT !.values[(index \div _BYTE) + 1] =
                                     ByteOr(@, 2 ^ (index % _BYTE))],
          ok |-> TRUE, err |-> "none"]

bitarray_reset(bitarray, index) ==
    IF index >= bitarray.size THEN [b |-> bitarray, ok |-> FALSE, err |-> "EINVAL"]
    ELSE [b |-> [bitarray EXCEPT !.values[(index \div _BYTE) + 1] =
                                     ByteAnd(@, ByteNot(2 ^ (index % _BYTE)))],
          ok |-> TRUE, err |-> "none"]

bitarray_flip(bitarray, index) ==
    IF index >= bitarray.size THEN [b |-> bitarray, ok |-> FALSE, err |-> "EINVAL"]
    ELSE [b |-> [bitarray EXCEPT !.values[(index \div _BYTE) + 1] =
                                     ByteXor(@, 2 ^ (index % _BYTE))],
          ok |-> TRUE, err |-> "none"]

bitarray_test(bitarray, index) ==
    IF index >= bitarray.size THEN [set |-> FALSE, err |-> "EINVAL"]
    ELSE [set |-> BitOf(bitarray.values[(index \div _BYTE) + 1], index % _BYTE) = 1,
          err |-> "none"]

RECURSIVE _count_loop(_, _)
\* for each bucket, for (j = values[i]; j != 0; j >>= 4) bits += _BITS[j & 0xF]
_count_loop(bitarray, i) ==
    IF i >= bitarray.buckets THEN 0
    ELSE _BITS[(bitarray.values[i + 1] % 16) + 1] + _BITS[(bitarray.values[i + 1] \div 16) + 1]
             + _count_loop(bitarray, i + 1)

bitarray_count(bitarray) == _count_loop(bitarray, 0)

bitarray_not(bitarray, mallocOk, callocOk) ==
    LET c == bitarray_construct(bitarray.size, mallocOk, callocOk)
    IN IF c.b = NoObject THEN c
       ELSE [b |-> _bitarray_sanitize(
                       [c.b EXCEPT !.values = [i \in 1..c.b.buckets |->
                                                  ByteNot(bitarray.values[i])]]),
             err |-> "none"]

\* the loop of bitarray_and, bitarray_or and bitarray_xor over the buckets of the smaller
\* operand, on the copy result
_buckets_loop(op, result, smaller, other) ==
    [result EXCEPT !.values = [i \in 1..result.buckets |->
        IF i > smaller.buckets THEN result.values[i]
        ELSE CASE op = "and" -> ByteAnd(result.values[i], other.values[i])
               [] op = "or" -> ByteOr(result.values[i], other.values[i])
               [] op = "xor" -> ByteXor(result.values[i], other.values[i])]]

bitarray_and(first, second, mallocOk, callocOk) ==
    LET smaller == _bitarray_smaller(first, second)
        bigger == _bitarray_bigger(first, second)
        copy == bitarray_copy(smaller, mallocOk, callocOk)
    IN IF copy.b = NoObject THEN copy
       ELSE [b |-> _buckets_loop("and", copy.b, smaller, bigger), err |-> "none"]

bitarray_or(first, second, mallocOk, callocOk) ==
    LET smaller == _bitarray_smaller(first, second)
        bigger == _bitarray_bigger(first, second)
        copy == bitarray_copy(bigger, mallocOk, callocOk)
    IN IF copy.b = NoObject THEN copy
       ELSE [b |-> _buckets_loop("or", copy.b, smaller, smaller), err |-> "none"]

bitarray_xor(first, second, mallocOk, callocOk) ==
    LET smaller == _bitarray_smaller(first, second)
        bigger == _bitarray_bigger(first, second)
        copy == bitarray_copy(bigger, mallocOk, callocOk)
    IN IF copy.b = NoObject THEN copy
       ELSE [b |-> _buckets_loop("xor", copy.b, smaller, smaller), err |-> "none"]

\* the largest bitarray the caller asks for, the sizes and the indexes it uses
MaxBits == 9
BitSizes == 0..MaxBits
BitIndexes(size) == {0, size - 1, size}

BitarrayConstruct(h) ==
    /\ family = "bitarray" /\ obj[h] = NoObject
    /\ \E size \in BitSizes, mallocOk \in BOOLEAN, callocOk \in BOOLEAN :
        obj' = Set(h, bitarray_construct(size, mallocOk, callocOk).b)
    /\ UNCHANGED <<family, slots, nodes, aborted>>

BitarrayCopy(h) ==
    /\ family = "bitarray" /\ obj[h] # NoObject /\ obj[Other(h)] = NoObject
    /\ \E mallocOk \in BOOLEAN, callocOk \in BOOLEAN :
        obj' = Set(Other(h), bitarray_copy(obj[h], mallocOk, callocOk).b)
    /\ UNCHANGED <<family, slots, nodes, aborted>>

BitarrayNot(h) ==
    /\ family = "bitarray" /\ obj[h] # NoObject /\ obj[Other(h)] = NoObject
    /\ \E mallocOk \in BOOLEAN, callocOk \in BOOLEAN :
        obj' = Set(Other(h), bitarray_not(obj[h], mallocOk, callocOk).b)
    /\ UNCHANGED <<family, slots, nodes, aborted>>

BitarrayFree(h) ==
    /\ family = "bitarray" /\ obj[h] # NoObject
    /\ obj' = Set(h, NoObject)
    /\ UNCHANGED <<family, slots, nodes, aborted>>

BitarrayClear(h) ==
    /\ family = "bitarray" /\ obj[h] # NoObject
    /\ obj' = Set(h, bitarray_clear(obj[h]))
    /\ UNCHANGED <<family, slots, nodes, aborted>>

BitarrayFill(h) ==
    /\ family = "bitarray" /\ obj[h] # NoObject
    /\ obj' = Set(h, bitarray_fill(obj[h]))
    /\ UNCHANGED <<family, slots, nodes, aborted>>

BitarraySet(h) ==
    /\ family = "bitarray" /\ obj[h] # NoObject
    /\ \E index \in BitIndexes(obj[h].size) : obj' = Set(h, bitarray_set(obj[h], index).b)
    /\ UNCHANGED <<family, slots, nodes, aborted>>

BitarrayReset(h) ==
    /\ family = "bitarray" /\ obj[h] # NoObject
    /\ \E index \in BitIndexes(obj[h].size) : obj' = Set(h, bitarray_reset(obj[h], index).b)
    /\ UNCHANGED <<family, slots, nodes, aborted>>

BitarrayFlip(h) ==
    /\ family = "bitarray" /\ obj[h] # NoObject
    /\ \E index \in BitIndexes(obj[h].size) : obj' = Set(h, bitarray_flip(obj[h], index).b)
    /\ UNCHANGED <<family, slots, nodes, aborted>>

\* the calls that read: bitarray_test, bitarray_count
BitarrayTest(h) ==
    /\ family = "bitarray" /\ obj[h] # NoObject
    /\ \E index \in BitIndexes(obj[h].size) : bitarray_test(obj[h], index).set \in BOOLEAN
    /\ bitarray_count(obj[h]) \in Nat
    /\ UNCHANGED vars

\* bitarray_and, bitarray_or and bitarray_xor of two bitarrays; the caller frees the result
BitarrayAnd(h) ==
    /\ family = "bitarray" /\ obj[h] # NoObject /\ obj[Other(h)] # NoObject
    /\ \E mallocOk \in BOOLEAN, callocOk \in BOOLEAN :
        bitarray_and(obj[h], obj[Other(h)], mallocOk, callocOk).err \in {"none", "ENOMEM"}
    /\ UNCHANGED vars

BitarrayOr(h) ==
    /\ family = "bitarray" /\ obj[h] # NoObject /\ obj[Other(h)] # NoObject
    /\ \E mallocOk \in BOOLEAN, callocOk \in BOOLEAN :
        bitarray_or(obj[h], obj[Other(h)], mallocOk, callocOk).err \in {"none", "ENOMEM"}
    /\ UNCHANGED vars

BitarrayXor(h) ==
    /\ family = "bitarray" /\ obj[h] # NoObject /\ obj[Other(h)] # NoObject
    /\ \E mallocOk \in BOOLEAN, callocOk \in BOOLEAN :
        bitarray_xor(obj[h], obj[Other(h)], mallocOk, callocOk).err \in {"none", "ENOMEM"}
    /\ UNCHANGED vars

BitarrayNext ==
    \/ \E h \in Handles : BitarrayConstruct(h)
    \/ \E h \in Handles : BitarrayCopy(h)
    \/ \E h \in Handles : BitarrayNot(h)
    \/ \E h \in Handles : BitarrayFree(h)
    \/ \E h \in Handles : BitarrayClear(h)
    \/ \E h \in Handles : BitarrayFill(h)
    \/ \E h \in Handles : BitarraySet(h)
    \/ \E h \in Handles : BitarrayReset(h)
    \/ \E h \in Handles : BitarrayFlip(h)
    \/ \E h \in Handles : BitarrayTest(h)
    \/ \E h \in Handles : BitarrayAnd(h)
    \/ \E h \in Handles : BitarrayOr(h)
    \/ \E h \in Handles : BitarrayXor(h)

(***************************************************************************)
(* vector_reserve of source/vector/vector.c, one loop iteration at a time, *)
(* on vectors whose limit is large enough for the candidate capacity to be *)
(* multiplied several times.  obj[1] is the vector, obj[2] the frame of    *)
(* the running call: its argument size, its local capacity and the values  *)
(* capacity has taken so far.                                              *)
(***************************************************************************)
\* the largest limit the caller of vector_reserve asks for
GrowLimit == 8
\* the limits and capacities asked for: the small ones, and the largest vector_construct
\* takes and the first it refuses
GrowLimits == 0..GrowLimit \cup {VECTOR_LIMIT, VECTOR_LIMIT + 1}
GrowCapacities == 0..(GrowLimit + 1) \cup {VECTOR_LIMIT}
\* the growth factors, in halves: 2.0, 2.5, 3.0 and 64.0
GrowIncrements == {4, 5, 6, 128}

\* capacity *= increment: the product is a double and is converted to size_t; a product
\* above SIZE_MAX has no defined conversion, and builds give 0, the top bit alone or SIZE_MAX
Converted(product) ==
    IF product <= SIZE_MAX THEN {product} ELSE {0, (SIZE_MAX + 1) \div 2, SIZE_MAX}

\* count * sizeof(void *), the argument of malloc and realloc: a size_t, which wraps
ByteCount(count) == (count * PtrSize) % (SIZE_MAX + 1)

\* the candidate is left as it is, whatever the limit
_reserve_clamp_none(v, grown) == grown

\* the two tests after the product: above the limit, and not above the capacity
_reserve_clamp(v, grown) ==
    IF grown > v.limit THEN v.limit
    ELSE IF grown <= v.capacity THEN v.limit
    ELSE grown

\* vector_reserve up to the loop
vector_reserve_enter(v, size) ==
    IF size > v.limit THEN [returns |-> TRUE, ok |-> FALSE, err |-> "EINVAL", capacity |-> 0]
    ELSE IF size <= v.capacity THEN [returns |-> TRUE, ok |-> TRUE, err |-> "none", capacity |-> 0]
    ELSE [returns |-> FALSE, ok |-> TRUE, err |-> "none",
          capacity |-> IF v.capacity = 0 THEN 1 ELSE v.capacity]

\* vector_reserve after the loop
vector_reserve_leave(v, capacity, reallocOk) ==
    IF ~reallocOk THEN [v |-> v, ok |-> FALSE, err |-> "ENOMEM"]
    ELSE [v |-> [v EXCEPT !.capacity = capacity, !.buf = TRUE], ok |-> TRUE, err |-> "none"]

\* a call of vector_reserve is under way
Growing == family = "grow" /\ obj[2] # NoObject

GrowConstruct ==
    /\ family = "grow" /\ obj[1] = NoObject
    /\ \E width \in Widths, limit \in GrowLimits, capacity \in GrowCapacities,
          increment \in GrowIncrements, mallocOk \in BOOLEAN :
        obj' = Set(1, vector_construct(width, limit, capacity, increment, FALSE, mallocOk,
                                       TRUE).v)
    /\ UNCHANGED <<family, slots, nodes, aborted>>

GrowFree ==
    /\ family = "grow" /\ obj[1] # NoObject /\ ~Growing
    /\ obj' = Set(1, NoObject)
    /\ UNCHANGED <<family, slots, nodes, aborted>>

\* vector_trim, which the vector of this caller, empty as it is, meets with its buffer freed
GrowTrim ==
    /\ family = "grow" /\ obj[1] # NoObject /\ ~Growing
    /\ \E reallocOk \in BOOLEAN : obj' = Set(1, vector_trim(obj[1], reallocOk).v)
    /\ UNCHANGED <<family, slots, nodes, aborted>>

\* the caller enters vector_reserve(vector, size)
GrowCall ==
    /\ family = "grow" /\ obj[1] # NoObject /\ ~Growing
    /\ \E size \in 0..(obj[1].limit + 1) :
        LET e == vector_reserve_enter(obj[1], size) IN
        IF e.returns THEN UNCHANGED obj
        ELSE obj' = Set(2, [size |-> size, capacity |-> e.capacity, steps |-> <<e.capacity>>])
    /\ UNCHANGED <<family, slots, nodes, aborted>>

\* the loop test holds: one more iteration
GrowIterate ==
    /\ Growing /\ obj[2].capacity < obj[2].size
    /\ \E grown \in Converted(Grow(obj[2].capacity, obj[1].increment)) :
        LET capacity == _reserve_clamp(obj[1], grown) IN
        obj' = Set(2, [obj[2] EXCEPT !.capacity = capacity, !.steps = Append(@, capacity)])
    /\ UNCHANGED <<family, slots, nodes, aborted>>

\* the loop test fails: realloc and return
GrowReturn ==
    /\ Growing /\ obj[2].capacity >= obj[2].size
    /\ \E reallocOk \in BOOLEAN :
        obj' = [obj EXCEPT ![1] = vector_reserve_leave(obj[1], obj[2].capacity, reallocOk).v,
                           ![2] = NoObject]
    /\ UNCHANGED <<family, slots, nodes, aborted>>

GrowNext ==
    \/ GrowConstruct
    \/ GrowFree
    \/ GrowTrim
    \/ GrowCall
    \/ GrowIterate
    \/ GrowReturn
(***************************************************************************)
(* The vector of unnamed/part_010 (unnamed/part_008 has the same text),    *)
(* built with a clone hook and a delete hook (free_data).  Its              *)
(* _data_construct releases the buffer of a failed clone with _data_free,   *)
(* which runs the delete hook on it; vector_remove, vector_clear and        *)
(* vector_free have the text of source/vector/vector.c.                     *)
(***************************************************************************)
\* a buffer that malloc has returned and nothing has been written to
Unwritten == [live |-> TRUE, val |-> NULL]

\* a cell of the heap is spoiled: freed twice, or handed to the delete hook unwritten
Spoiled(heap) == \E s \in DOMAIN heap : heap[s].live /\ heap[s].val = NULL

_data_construct_hooked(v, heap, data, orc) ==
    IF data = NULL THEN [new |-> NULL, slots |-> heap, err |-> "EINVAL"]
    ELSE LET new == malloc(heap, orc.malloc) IN
        IF new = NULL THEN [new |-> NULL, slots |-> heap, err |-> "ENOMEM"]
        ELSE LET c == _data_clone(v, data, new, orc.hook) IN
            IF ~c.ok
            THEN [new |-> NULL, slots |-> _data_free(v, [heap EXCEPT ![new] = Unwritten], new),
                  err |-> c.err]
            ELSE [new |-> new, slots |-> [heap EXCEPT ![new] = [live |-> TRUE, val |-> c.out]],
                  err |-> "none"]

vector_insert_hooked(v, heap, data, index, orc) ==
    IF data = NULL \/ index > v.size
    THEN [v |-> v, slots |-> heap, ok |-> FALSE, err |-> "EINVAL"]
    ELSE IF vector_full(v)
    THEN [v |-> v, slots |-> heap, ok |-> FALSE, err |-> "ENOSPC"]
    ELSE LET r == vector_reserve(v, v.size + 1, orc.realloc) IN
        IF ~r.ok THEN [v |-> v, slots |-> heap, ok |-> FALSE, err |-> r.err]
        ELSE LET c == _data_construct_hooked(r.v, heap, data, orc) IN
            IF c.new = NULL THEN [v |-> r.v, slots |-> c.slots, ok |-> FALSE, err |-> c.err]
            ELSE [v |-> [r.v EXCEPT !.data = ShiftRight(r.v.data, index, c.new),
                                    !.size = r.v.size + 1],
                  slots |-> c.slots, ok |-> TRUE, err |-> "none"]

vector_set_hooked(v, heap, data, index, orc) ==
    IF data = NULL \/ index >= v.size
    THEN [v |-> v, slots |-> heap, ok |-> FALSE, err |-> "EINVAL"]
    ELSE LET c == _data_construct_hooked(v, heap, data, orc) IN
        IF c.new = NULL THEN [v |-> v, slots |-> c.slots, ok |-> FALSE, err |-> c.err]
        ELSE [v |-> [v EXCEPT !.data[index + 1] = c.new],
              slots |-> _data_free(v, c.slots, v.data[index + 1]),
              ok |-> TRUE, err |-> "none"]

\* a call that has run the delete hook on an unwritten buffer is undefined: the hook gets
\* away with it and the buffer is freed, or the program dies
HookedCommit(r, h) ==
    IF Spoiled(r.slots)
    THEN Commit(Set(h, r.v), slots, nodes) /\ aborted' \in BOOLEAN
    ELSE Commit(Set(h, r.v), r.slots, nodes) /\ aborted' = FALSE

HookedConstruct(h) ==
    /\ ~aborted /\ family = "vector" /\ obj[h] = NoObject
    /\ \E width \in Widths, limit \in Limits, capacity \in Capacities,
          increment \in {IncrementMin - 2, IncrementMin}, clone \in BOOLEAN,
          mallocOk \in BOOLEAN :
        obj' = Set(h, vector_construct_low(width, limit, capacity, increment, clone, mallocOk,
                                           TRUE).v)
    /\ UNCHANGED <<family, slots, nodes, aborted>>

HookedInsert(h) ==
    /\ ~aborted /\ family = "vector" /\ IsObject(obj[h])
    /\ \E index \in Indexes(obj[h].size), data \in Pointers, orc \in InsertOracles :
        HookedCommit(vector_insert_hooked(obj[h], slots, data, index, orc), h)
    /\ UNCHANGED family

HookedSet(h) ==
    /\ ~aborted /\ family = "vector" /\ IsObject(obj[h])
    /\ \E index \in Indexes(obj[h].size), data \in Pointers, orc \in SetOracles :
        HookedCommit(vector_set_hooked(obj[h], slots, data, index, orc), h)
    /\ UNCHANGED family

HookedRemove(h) ==
    /\ ~aborted /\ family = "vector" /\ IsObject(obj[h])
    /\ \E index \in Indexes(obj[h].size), destination \in Destinations, orc \in GetOracles :
        LET r == vector_remove(obj[h], slots, index, destination, orc) IN
        Commit(Set(h, r.v), r.slots, nodes)
    /\ UNCHANGED <<family, aborted>>

HookedClear(h) ==
    /\ ~aborted /\ family = "vector" /\ IsObject(obj[h])
    /\ LET r == vector_clear(obj[h], slots) IN Commit(Set(h, r.v), r.slots, nodes)
    /\ UNCHANGED <<family, aborted>>

HookedFree(h) ==
    /\ ~aborted /\ family = "vector" /\ IsObject(obj[h])
    /\ Commit(Set(h, NoObject), vector_free(obj[h], slots), nodes)
    /\ UNCHANGED <<family, aborted>>

HookedNext ==
    \/ \E h \in Handles : HookedConstruct(h)
    \/ \E h \in Handles : HookedInsert(h)
    \/ \E h \in Handles : HookedSet(h)
    \/ \E h \in Handles : HookedRemove(h)
    \/ \E h \in Handles : HookedClear(h)
    \/ \E h \in Handles : HookedFree(h)
(***************************************************************************)
(* source/queue/queue.c: a singly linked chain (previous is never set).    *)
(* A queue is [front, back, size, width, limit, copy].  queue_clear runs   *)
(* the loop of list_clear.                                                 *)
(***************************************************************************)
queue_empty(queue) == queue.front = NULL
queue_full(queue) == queue.size = queue.limit

queue_clear(queue, heapNodes, heapSlots) ==
    LET Cleared(f) ==
            [q |-> [queue EXCEPT !.front = NULL, !.back = NULL, !.size = 0],
             nodes |-> f.nodes, slots |-> f.slots, ok |-> TRUE, err |-> "none"]
    IN Cleared(list_clear_loop(queue, heapNodes, heapSlots, queue.front))

queue_construct(width, limit, copy, mallocOk) ==
    IF width = 0 \/ limit = 0 THEN [q |-> NoObject, err |-> "EINVAL"]
    ELSE IF ~mallocOk THEN [q |-> NoObject, err |-> "ENOMEM"]
    ELSE [q |-> [front |-> NULL, back |-> NULL, size |-> 0, width |-> width, limit |-> limit,
                 copy |-> copy],
          err |-> "none"]

\* queue_clear, free(queue)
queue_free(queue, heapNodes, heapSlots) == list_clear_loop(queue, heapNodes, heapSlots, queue.front)

queue_peek(queue, heapNodes, heapSlots, destination, orc) ==
    IF destination = NULL \/ queue_empty(queue) THEN [ok |-> FALSE, err |-> "EINVAL", out |-> NULL]
    ELSE _value_copy(queue, ValueOf(heapNodes, heapSlots, queue.front), destination, orc.hook)

queue_dequeue(queue, heapNodes, heapSlots, destination, orc) ==
    LET Failed(err) ==
            [q |-> queue, nodes |-> heapNodes, slots |-> heapSlots, ok |-> FALSE, err |-> err,
             out |-> NULL]
        Removed(peeked, f) ==
            [q |-> [queue EXCEPT !.front = heapNodes[queue.front].next,
                                 !.back = IF heapNodes[queue.front].next = NULL THEN NULL ELSE @,
                                 !.size = @ - 1],
             nodes |-> f.nodes, slots |-> f.slots, ok |-> TRUE, err |-> "none",
             out |-> peeked.out]
        Peeked(peeked) ==
            IF ~peeked.ok THEN Failed(peeked.err)
            ELSE Removed(peeked, _node_free(queue, heapNodes, heapSlots, queue.front))
    IN IF queue_empty(queue) THEN Failed("EINVAL")
       ELSE Peeked(IF destination # NULL
                   THEN queue_peek(queue, heapNodes, heapSlots, destination, orc)
                   ELSE [ok |-> TRUE, err |-> "none", out |-> NULL])

\* the enqueue that links the new node at the front
queue_enqueue_front(queue, heapNodes, heapSlots, value, orc) ==
    LET Failed(err) ==
            [q |-> queue, nodes |-> heapNodes, slots |-> heapSlots, ok |-> FALSE, err |-> err]
        Constructed(c) ==
            IF c.new = NULL THEN Failed(c.err)
            ELSE IF queue_empty(queue)
            THEN [q |-> [queue EXCEPT !.front = c.new, !.back = c.new, !.size = @ + 1],
                  nodes |-> c.nodes, slots |-> c.slots, ok |-> TRUE, err |-> "none"]
            ELSE [q |-> [queue EXCEPT !.front = c.new, !.size = @ + 1],
                  nodes |-> [c.nodes EXCEPT ![c.new].next = queue.front],
                  slots |-> c.slots, ok |-> TRUE, err |-> "none"]
    IN IF value = NULL THEN Failed("EINVAL")
       ELSE IF queue_full(queue) THEN Failed("ENOSPC")
       ELSE Constructed(_node_construct(queue, heapNodes, heapSlots, value, orc))
queue_enqueue(queue, heapNodes, heapSlots, value, orc) ==
    LET Failed(err) ==
            [q |-> queue, nodes |-> heapNodes, slots |-> heapSlots, ok |-> FALSE, err |-> err]
        Constructed(c) ==
            IF c.new = NULL THEN Failed(c.err)
            ELSE IF queue_empty(queue)
            THEN [q |-> [queue EXCEPT !.front = c.new, !.back = c.new, !.size = @ + 1],
                  nodes |-> c.nodes, slots |-> c.slots, ok |-> TRUE, err |-> "none"]
            ELSE [q |-> [queue EXCEPT !.back = c.new, !.size = @ + 1],
                  nodes |-> [c.nodes EXCEPT ![queue.back].next = c.new],
                  slots |-> c.slots, ok |-> TRUE, err |-> "none"]
    IN IF value = NULL THEN Failed("EINVAL")
       ELSE IF queue_full(queue) THEN Failed("ENOSPC")
       ELSE Constructed(_node_construct(queue, heapNodes, heapSlots, value, orc))

RECURSIVE queue_copy_loop(_, _, _, _, _, _, _)
\* for (node = queue->front; node != NULL; node = node->next)
\*     if (queue_enqueue(copy, node->value) == false) { queue_free(copy); return NULL; }
queue_copy_loop(copy, heapNodes, heapSlots, node, i, failAt, orc) ==
    LET Released(f, err) == [q |-> NoObject, nodes |-> f.nodes, slots |-> f.slots, err |-> err]
        Enqueued(r) ==
            IF ~r.ok THEN Released(queue_free(r.q, r.nodes, r.slots), r.err)
            ELSE queue_copy_loop(r.q, r.nodes, r.slots, heapNodes[node].next, i + 1, failAt, orc)
    IN IF node = NULL
       THEN [q |-> copy, nodes |-> heapNodes, slots |-> heapSlots, err |-> "none"]
       ELSE Enqueued(queue_enqueue(copy, heapNodes, heapSlots,
                                   ValueOf(heapNodes, heapSlots, node),
                                   OracleAt(i, failAt, orc)))

queue_copy(queue, heapNodes, heapSlots, sc) ==
    LET Constructed(c) ==
            IF c.q = NoObject
            THEN [q |-> NoObject, nodes |-> heapNodes, slots |-> heapSlots, err |-> c.err]
            ELSE queue_copy_loop(c.q, heapNodes, heapSlots, queue.front, 1, sc.failAt, sc.orc)
    IN Constructed(queue_construct(queue.width, queue.limit, queue.copy, sc.mallocOk))

RECURSIVE queue_reverse_loop(_, _, _, _, _, _, _)
\* for each node of the queue: a new node, put in front of the reversed queue
queue_reverse_loop(reversed, heapNodes, heapSlots, node, i, failAt, orc) ==
    LET Released(f, err) == [q |-> NoObject, nodes |-> f.nodes, slots |-> f.slots, err |-> err]
        Constructed(c) ==
            IF c.new = NULL THEN Released(queue_free(reversed, heapNodes, heapSlots), c.err)
            ELSE IF queue_empty(reversed)
            THEN queue_reverse_loop(
                    [reversed EXCEPT !.front = c.new, !.back = c.new, !.size = @ + 1],
                    c.nodes, c.slots, heapNodes[node].next, i + 1, failAt, orc)
            ELSE queue_reverse_loop(
                    [reversed EXCEPT !.front = c.new, !.size = @ + 1],
                    [c.nodes EXCEPT ![c.new].next = reversed.front],
                    c.slots, heapNodes[node].next, i + 1, failAt, orc)
    IN IF node = NULL
       THEN [q |-> reversed, nodes |-> heapNodes, slots |-> heapSlots, err |-> "none"]
       ELSE Constructed(_node_construct(reversed, heapNodes, heapSlots,
                                        ValueOf(heapNodes, heapSlots, node),
                                        OracleAt(i, failAt, orc)))

queue_reverse(queue, heapNodes, heapSlots, sc) ==
    LET Constructed(c) ==
            IF c.q = NoObject
            THEN [q |-> NoObject, nodes |-> heapNodes, slots |-> heapSlots, err |-> c.err]
            ELSE queue_reverse_loop(c.q, heapNodes, heapSlots, queue.front, 1, sc.failAt, sc.orc)
    IN Constructed(queue_construct(queue.width, queue.limit, queue.copy, sc.mallocOk))

(***************************************************************************)
(* Calls of the queue interface                                            *)
(***************************************************************************)
QueueConstruct ==
    /\ ~aborted /\ family = "queue" /\ obj[1] = NoObject /\ obj[2] = NoObject
    /\ \E width \in Widths, limit \in NodeLimits, copy \in BOOLEAN, mallocOk \in BOOLEAN :
        obj' = Set(1, queue_construct(width, limit, copy, mallocOk).q)
    /\ UNCHANGED <<family, slots, nodes, aborted>>

QueueCopy(h) ==
    /\ ~aborted /\ family = "queue" /\ IsObject(obj[h]) /\ obj[Other(h)] = NoObject
    /\ \E sc \in NodeCopyScenarios(obj[h].size) :
        LET c == queue_copy(obj[h], nodes, slots, sc) IN
        Commit(Set(Other(h), c.q), c.slots, c.nodes)
    /\ UNCHANGED <<family, aborted>>

QueueReverse(h) ==
    /\ ~aborted /\ family = "queue" /\ IsObject(obj[h]) /\ obj[Other(h)] = NoObject
    /\ \E sc \in NodeCopyScenarios(obj[h].size) :
        LET c == queue_reverse(obj[h], nodes, slots, sc) IN
        Commit(Set(Other(h), c.q), c.slots, c.nodes)
    /\ UNCHANGED <<family, aborted>>

QueueFree(h) ==
    /\ ~aborted /\ family = "queue" /\ IsObject(obj[h])
    /\ LET f == queue_free(obj[h], nodes, slots) IN Commit(Set(h, NoObject), f.slots, f.nodes)
    /\ UNCHANGED <<family, aborted>>

QueueClear(h) ==
    /\ ~aborted /\ family = "queue" /\ IsObject(obj[h])
    /\ LET r == queue_clear(obj[h], nodes, slots) IN Commit(Set(h, r.q), r.slots, r.nodes)
    /\ UNCHANGED <<family, aborted>>

QueueEnqueue(h) ==
    /\ ~aborted /\ family = "queue" /\ IsObject(obj[h])
    /\ \E value \in Pointers, orc \in NodeOracles :
        LET r == queue_enqueue(obj[h], nodes, slots, value, orc) IN
        Commit(Set(h, r.q), r.slots, r.nodes)
    /\ UNCHANGED <<family, aborted>>

QueueDequeue(h) ==
    /\ ~aborted /\ family = "queue" /\ IsObject(obj[h])
    /\ \E destination \in Destinations, orc \in GetOracles :
        LET r == queue_dequeue(obj[h], nodes, slots, destination, orc) IN
        Commit(Set(h, r.q), r.slots, r.nodes)
    /\ UNCHANGED <<family, aborted>>

\* a read: the result goes to the caller's destination, the state stays
QueuePeek(h) ==
    /\ ~aborted /\ family = "queue" /\ IsObject(obj[h])
    /\ \E destination \in Destinations, orc \in GetOracles :
        queue_peek(obj[h], nodes, slots, destination, orc).ok \in BOOLEAN
    /\ UNCHANGED vars

QueueNext ==
    \/ QueueConstruct
    \/ \E h \in Handles : QueueCopy(h)
    \/ \E h \in Handles : QueueReverse(h)
    \/ \E h \in Handles : QueueFree(h)
    \/ \E h \in Handles : QueueClear(h)
    \/ \E h \in Handles : QueueEnqueue(h)
    \/ \E h \in Handles : QueueDequeue(h)
    \/ \E h \in Handles : QueuePeek(h)

(***************************************************************************)
(* src/queue/queue.c: the queue kept by head and tail.  A queue is         *)
(* [head, tail, size, width, free_data]; a node's data pointer is kept in  *)
(* the field value of its cell.  Values are copied with memcpy, and the    *)
(* queue is empty when head is NULL.                                       *)
(***************************************************************************)
_construct_node_data(heapNodes, heapSlots, data, width, orc) ==
    LET Failed(err) == [new |-> NULL, nodes |-> heapNodes, slots |-> heapSlots, err |-> err]
        Filled(node, buffer) ==
            IF buffer = NULL THEN Failed("ENOMEM")
            ELSE [new |-> node,
                  nodes |-> [heapNodes EXCEPT ![node] = [live |-> TRUE, value |-> buffer,
                                                         next |-> NULL, previous |-> NULL]],
                  slots |-> [heapSlots EXCEPT ![buffer] = [live |-> TRUE, val |-> data]],
                  err |-> "none"]
        Allocated(node) ==
            IF node = NULL THEN Failed("ENOMEM") ELSE Filled(node, malloc(heapSlots, orc.malloc))
    IN IF data = NULL \/ width = 0 THEN Failed("EINVAL")
       ELSE Allocated(malloc(heapNodes, orc.node))

\* free_data(node->data) when the hook is given, free(node->data), free(node)
_free_node_data(heapNodes, heapSlots, node, free_data) ==
    IF node = NULL THEN [nodes |-> heapNodes, slots |-> heapSlots]
    ELSE [nodes |-> free(heapNodes, node), slots |-> free(heapSlots, heapNodes[node].value)]

queue_construct_head(width, free_data, compareGiven, mallocOk) ==
    IF width = 0 \/ ~compareGiven THEN [q |-> NoObject, err |-> "EINVAL"]
    ELSE IF ~mallocOk THEN [q |-> NoObject, err |-> "ENOMEM"]
    ELSE [q |-> [head |-> NULL, tail |-> NULL, size |-> 0, width |-> width,
                 free_data |-> free_data],
          err |-> "none"]

queue_isempty(queue) == queue.head = NULL
queue_isfull(queue) == queue.size = SIZE_MAX

RECURSIVE queue_clear_loop(_, _, _, _)
\* while (node != NULL) { remove = node; node = node->next; _free_node_data(remove, free_data); }
queue_clear_loop(queue, heapNodes, heapSlots, node) ==
    LET Freed_(f) == queue_clear_loop(queue, f.nodes, f.slots, heapNodes[node].next)
    IN IF node = NULL THEN [nodes |-> heapNodes, slots |-> heapSlots]
       ELSE Freed_(_free_node_data(heapNodes, heapSlots, node, queue.free_data))

queue_clear_head(queue, heapNodes, heapSlots) ==
    LET Cleared(f) ==
            [q |-> [queue EXCEPT !.head = NULL, !.tail = NULL, !.size = 0],
             nodes |-> f.nodes, slots |-> f.slots]
    IN Cleared(queue_clear_loop(queue, heapNodes, heapSlots, queue.head))

\* queue_clear, free(queue)
queue_free_head(queue, heapNodes, heapSlots) ==
    queue_clear_loop(queue, heapNodes, heapSlots, queue.head)

queue_enqueue_tail(queue, heapNodes, heapSlots, data, orc) ==
    LET Failed(err) ==
            [q |-> queue, nodes |-> heapNodes, slots |-> heapSlots, ok |-> FALSE, err |-> err]
        Constructed(c) ==
            IF c.new = NULL THEN Failed(c.err)
            ELSE IF queue_isempty(queue)
            THEN [q |-> [queue EXCEPT !.head = c.new, !.tail = c.new, !.size = @ + 1],
                  nodes |-> c.nodes, slots |-> c.slots, ok |-> TRUE, err |-> "none"]
            ELSE [q |-> [queue EXCEPT !.tail = c.new, !.size = @ + 1],
                  nodes |-> [c.nodes EXCEPT ![queue.tail].next = c.new],
                  slots |-> c.slots, ok |-> TRUE, err |-> "none"]
    IN IF data = NULL THEN Failed("EINVAL")
       ELSE IF queue_isfull(queue) THEN Failed("ENOSPC")
       ELSE Constructed(_construct_node_data(heapNodes, heapSlots, data, queue.width, orc))

\* memcpy(destination, queue->head->data, queue->width)
queue_peek_head(queue, heapNodes, heapSlots, destination) ==
    IF destination = NULL \/ queue_isempty(queue)
    THEN [ok |-> FALSE, err |-> "EINVAL", out |-> NULL]
    ELSE [ok |-> TRUE, err |-> "none", out |-> heapSlots[heapNodes[queue.head].value].val]

\* remove = head; head = head->next; _free_node_data(remove, NULL); size--
queue_dequeue_head(queue, heapNodes, heapSlots, destination) ==
    LET Removed(peeked, f) ==
            [q |-> [queue EXCEPT !.head = heapNodes[queue.head].next, !.size = @ - 1],
             nodes |-> f.nodes, slots |-> f.slots, ok |-> TRUE, err |-> "none",
             out |-> peeked.out]
        Peeked(peeked) ==
            IF ~peeked.ok
            THEN [q |-> queue, nodes |-> heapNodes, slots |-> heapSlots, ok |-> FALSE,
                  err |-> peeked.err, out |-> NULL]
            ELSE Removed(peeked, _free_node_data(heapNodes, heapSlots, queue.head, FALSE))
    IN Peeked(queue_peek_head(queue, heapNodes, heapSlots, destination))

(***************************************************************************)
(* Calls of the head and tail queue: obj[1] is the queue                    *)
(***************************************************************************)
HeadOracles == {o \in Oracles : o.realloc /\ o.hook}

HeadConstruct ==
    /\ family = "head" /\ obj[1] = NoObject
    /\ \E width \in Widths, free_data \in BOOLEAN, compareGiven \in BOOLEAN, mallocOk \in BOOLEAN :
        obj' = Set(1, queue_construct_head(width, free_data, compareGiven, mallocOk).q)
    /\ UNCHANGED <<family, slots, nodes, aborted>>

HeadFree ==
    /\ family = "head" /\ IsObject(obj[1])
    /\ LET f == queue_free_head(obj[1], nodes, slots) IN
        obj' = Set(1, NoObject) /\ nodes' = f.nodes /\ slots' = f.slots
    /\ UNCHANGED <<family, aborted>>

HeadClear ==
    /\ family = "head" /\ IsObject(obj[1])
    /\ LET r == queue_clear_head(obj[1], nodes, slots) IN
        obj' = Set(1, r.q) /\ nodes' = r.nodes /\ slots' = r.slots
    /\ UNCHANGED <<family, aborted>>

HeadEnqueue ==
    /\ family = "head" /\ IsObject(obj[1])
    /\ \E data \in Pointers, orc \in HeadOracles :
        LET r == queue_enqueue_tail(obj[1], nodes, slots, data, orc) IN
        obj' = Set(1, r.q) /\ nodes' = r.nodes /\ slots' = r.slots
    /\ UNCHANGED <<family, aborted>>

HeadDequeue ==
    /\ family = "head" /\ IsObject(obj[1])
    /\ \E destination \in Destinations :
        LET r == queue_dequeue_head(obj[1], nodes, slots, destination) IN
        obj' = Set(1, r.q) /\ nodes' = r.nodes /\ slots' = r.slots
    /\ UNCHANGED <<family, aborted>>

HeadNext ==
    \/ HeadConstruct
    \/ HeadFree
    \/ HeadClear
    \/ HeadEnqueue
    \/ HeadDequeue

(***************************************************************************)
(* vector_sort of src/source/vector/vector.c called by two threads, each   *)
(* on a vector of its own.  obj[t] is the call of thread t: the vector's   *)
(* data, the arguments and the position in vector_sort; obj[0] holds the   *)
(* file-scope variables _compare and _reverse, which every call writes and *)
(* every comparison of qsort reads.  A step is one statement; the          *)
(* statements of the two threads interleave in any order.                  *)
(***************************************************************************)
Threads == Handles
_reverse == obj[0].reverse
_compare == obj[0].compare

\* a comparator pointer that is NULL
NoCompare == "NULL"

\* the comparators the callers pass: no product of theirs leaves the range of int
SortComparators == {"int", "key"}

\* the slots are split between the two vectors; the values they hold are any
SortVectors ==
    [t \in Threads |->
        IF t = 1 THEN [i \in 1..(MaxSlots \div 2) |-> i]
        ELSE [i \in 1..(MaxSlots - MaxSlots \div 2) |-> MaxSlots \div 2 + i]]

InitSort ==
    /\ family = "sort"
    /\ obj = [t \in Threads \cup {0} |->
                 IF t = 0 THEN [reverse |-> FALSE, compare |-> NoCompare]
                 ELSE [data |-> SortVectors[t], pc |-> "idle", reverse |-> FALSE,
                       compare |-> NoCompare, seen |-> {}]]
    /\ \E vals \in [SlotIds -> Values] :
        slots = [i \in SlotIds |-> [live |-> TRUE, val |-> vals[i]]]
    /\ nodes = [i \in NodeIds |-> FreeNode]
    /\ aborted = FALSE

\* a write of the file-scope variables reaches every qsort that is under way: its later
\* comparisons are answered with the new values
Written(t, reverse, cmp) ==
    [o \in Threads \cup {0} |->
        IF o = 0 THEN [reverse |-> reverse, compare |-> cmp]
        ELSE IF o # t /\ obj[o].pc = "qsort"
        THEN [obj[o] EXCEPT !.seen = @ \cup {<<reverse, cmp>>}]
        ELSE obj[o]]

\* the orders qsort may leave: with one comparison function throughout, those of qsort; when
\* the function changed between comparisons, any order of the pointers
qsort_racing(base, heap, seen) ==
    IF Cardinality(seen) = 1
    THEN UNION {qsort(base, heap, s[1], s[2]) : s \in seen}
    ELSE {[i \in DOMAIN base |-> base[f[i]]] : f \in Permutations(DOMAIN base)}

\* thread t enters vector_sort(vector, reverse, compare); a NULL compare returns false
SortCall(t) ==
    /\ family = "sort" /\ obj[t].pc = "idle"
    /\ \E reverse \in BOOLEAN, cmp \in SortComparators \cup {NoCompare} :
        IF cmp = NoCompare THEN UNCHANGED obj
        ELSE obj' = Set(t, [obj[t] EXCEPT !.pc = "reverse", !.reverse = reverse,
                                          !.compare = cmp])
    /\ UNCHANGED <<family, slots, nodes, aborted>>

\* _reverse = reverse;
SortSetReverse(t) ==
    /\ family = "sort" /\ obj[t].pc = "reverse"
    /\ obj' = [Written(t, obj[t].reverse, _compare) EXCEPT ![t].pc = "compare"]
    /\ UNCHANGED <<family, slots, nodes, aborted>>

\* _compare = compare; and qsort starts
SortSetCompare(t) ==
    /\ family = "sort" /\ obj[t].pc = "compare"
    /\ obj' = [Written(t, _reverse, obj[t].compare) EXCEPT
                  ![t].pc = "qsort", ![t].seen = {<<_reverse, obj[t].compare>>}]
    /\ UNCHANGED <<family, slots, nodes, aborted>>

\* qsort returns, and vector_sort returns true
SortReturn(t) ==
    /\ family = "sort" /\ obj[t].pc = "qsort"
    /\ \E sorted \in qsort_racing(obj[t].data, slots, obj[t].seen) :
        obj' = Set(t, [obj[t] EXCEPT !.pc = "done", !.data = sorted, !.seen = {}])
    /\ UNCHANGED <<family, slots, nodes, aborted>>

\* the caller has its result and may call again
SortResume(t) ==
    /\ family = "sort" /\ obj[t].pc = "done"
    /\ obj' = Set(t, [obj[t] EXCEPT !.pc = "idle", !.reverse = FALSE, !.compare = NoCompare])
    /\ UNCHANGED <<family, slots, nodes, aborted>>

SortNext ==
    \/ \E t \in Threads : SortCall(t)
    \/ \E t \in Threads : SortSetReverse(t)
    \/ \E t \in Threads : SortSetCompare(t)
    \/ \E t \in Threads : SortReturn(t)
    \/ \E t \in Threads : SortResume(t)

\* one thread alone: the other never calls
SortAloneNext ==
    \/ SortCall(1)
    \/ SortSetReverse(1)
    \/ SortSetCompare(1)
    \/ SortReturn(1)
    \/ SortResume(1)

(***************************************************************************)
(* The deque (deque.c, carried in source/bitarray/bitarray.c): a doubly    *)
(* linked chain, [front, back, size, width, limit, copy].  The file holds  *)
(* two variants of deque.c; the operations are those of the first, and     *)
(* deque_clone is the whole-container copy of the second.                  *)
(***************************************************************************)
deque_empty(deque) == deque.front = NULL
deque_full(deque) == deque.size = deque.limit

deque_back(deque, heapNodes, heapSlots, destination, orc) ==
    IF destination = NULL \/ deque_empty(deque) THEN [ok |-> FALSE, err |-> "EINVAL", out |-> NULL]
    ELSE _value_copy(deque, ValueOf(heapNodes, heapSlots, deque.back), destination, orc.hook)

deque_front(deque, heapNodes, heapSlots, destination, orc) ==
    IF destination = NULL \/ deque_empty(deque) THEN [ok |-> FALSE, err |-> "EINVAL", out |-> NULL]
    ELSE _value_copy(deque, ValueOf(heapNodes, heapSlots, deque.front), destination, orc.hook)

deque_clear(deque, heapNodes, heapSlots) ==
    LET Cleared(f) ==
            [d |-> [deque EXCEPT !.front = NULL, !.back = NULL, !.size = 0],
             nodes |-> f.nodes, slots |-> f.slots, ok |-> TRUE, err |-> "none"]
    IN Cleared(list_clear_loop(deque, heapNodes, heapSlots, deque.front))

deque_construct(width, limit, copy, mallocOk) ==
    IF width = 0 \/ limit = 0 THEN [d |-> NoObject, err |-> "EINVAL"]
    ELSE IF ~mallocOk THEN [d |-> NoObject, err |-> "ENOMEM"]
    ELSE [d |-> [front |-> NULL, back |-> NULL, size |-> 0, width |-> width, limit |-> limit,
                 copy |-> copy],
          err |-> "none"]

\* deque_clear, free(deque)
deque_free(deque, heapNodes, heapSlots) == list_clear_loop(deque, heapNodes, heapSlots, deque.front)

deque_pop(deque, heapNodes, heapSlots, destination, orc) ==
    LET Failed(err) ==
            [d |-> deque, nodes |-> heapNodes, slots |-> heapSlots, ok |-> FALSE, err |-> err,
             out |-> NULL]
        Removed(read, back, f) ==
            [d |-> [deque EXCEPT !.back = back, !.front = IF back = NULL THEN NULL ELSE @,
                                 !.size = @ - 1],
             nodes |-> IF back = NULL THEN f.nodes ELSE [f.nodes EXCEPT ![back].next = NULL],
             slots |-> f.slots, ok |-> TRUE, err |-> "none", out |-> read.out]
        Read(read) ==
            IF ~read.ok THEN Failed(read.err)
            ELSE Removed(read, heapNodes[deque.back].previous,
                         _node_free(deque, heapNodes, heapSlots, deque.back))
    IN IF deque_empty(deque) THEN Failed("EINVAL")
       ELSE Read(IF destination # NULL
                 THEN deque_back(deque, heapNodes, heapSlots, destination, orc)
                 ELSE [ok |-> TRUE, err |-> "none", out |-> NULL])

deque_shift(deque, heapNodes, heapSlots, destination, orc) ==
    LET Failed(err) ==
            [d |-> deque, nodes |-> heapNodes, slots |-> heapSlots, ok |-> FALSE, err |-> err,
             out |-> NULL]
        Removed(read, front, f) ==
            [d |-> [deque EXCEPT !.front = front, !.back = IF front = NULL THEN NULL ELSE @,
                                 !.size = @ - 1],
             nodes |-> IF front = NULL THEN f.nodes
                       ELSE [f.nodes EXCEPT ![front].previous = NULL],
             slots |-> f.slots, ok |-> TRUE, err |-> "none", out |-> read.out]
        Read(read) ==
            IF ~read.ok THEN Failed(read.err)
            ELSE Removed(read, heapNodes[deque.front].next,
                         _node_free(deque, heapNodes, heapSlots, deque.front))
    IN IF deque_empty(deque) THEN Failed("EINVAL")
       ELSE Read(IF destination # NULL
                 THEN deque_front(deque, heapNodes, heapSlots, destination, orc)
                 ELSE [ok |-> TRUE, err |-> "none", out |-> NULL])

deque_push(deque, heapNodes, heapSlots, value, orc) ==
    LET Failed(err) ==
            [d |-> deque, nodes |-> heapNodes, slots |-> heapSlots, ok |-> FALSE, err |-> err]
        Constructed(c) ==
            IF c.new = NULL THEN Failed(c.err)
            ELSE IF deque_empty(deque)
            THEN [d |-> [deque EXCEPT !.front = c.new, !.back = c.new, !.size = @ + 1],
                  nodes |-> c.nodes, slots |-> c.slots, ok |-> TRUE, err |-> "none"]
            ELSE [d |-> [deque EXCEPT !.back = c.new, !.size = @ + 1],
                  nodes |-> [c.nodes EXCEPT ![c.new].previous = deque.back,
                                            ![deque.back].next = c.new],
                  slots |-> c.slots, ok |-> TRUE, err |-> "none"]
    IN IF value = NULL THEN Failed("EINVAL")
       ELSE IF deque_full(deque) THEN Failed("ENOSPC")
       ELSE Constructed(_node_construct(deque, heapNodes, heapSlots, value, orc))

\* the unshift that links the new node at the back
deque_unshift_back(deque, heapNodes, heapSlots, value, orc) ==
    deque_push(deque, heapNodes, heapSlots, value, orc)
deque_unshift(deque, heapNodes, heapSlots, value, orc) ==
    LET Failed(err) ==
            [d |-> deque, nodes |-> heapNodes, slots |-> heapSlots, ok |-> FALSE, err |-> err]
        Constructed(c) ==
            IF c.new = NULL THEN Failed(c.err)
            ELSE IF deque_empty(deque)
            THEN [d |-> [deque EXCEPT !.front = c.new, !.back = c.new, !.size = @ + 1],
                  nodes |-> c.nodes, slots |-> c.slots, ok |-> TRUE, err |-> "none"]
            ELSE [d |-> [deque EXCEPT !.front = c.new, !.size = @ + 1],
                  nodes |-> [c.nodes EXCEPT ![c.new].next = deque.front,
                                            ![deque.front].previous = c.new],
                  slots |-> c.slots, ok |-> TRUE, err |-> "none"]
    IN IF value = NULL THEN Failed("EINVAL")
       ELSE IF deque_full(deque) THEN Failed("ENOSPC")
       ELSE Constructed(_node_construct(deque, heapNodes, heapSlots, value, orc))

RECURSIVE deque_copy_loop(_, _, _, _, _, _, _)
\* first variant: for each node of the deque
\*     if (deque_push(copy, node->value) == false) { deque_free(copy); return NULL; }
deque_copy_loop(copy, heapNodes, heapSlots, node, i, failAt, orc) ==
    LET Released(f, err) == [d |-> NoObject, nodes |-> f.nodes, slots |-> f.slots, err |-> err]
        Pushed(r) ==
            IF ~r.ok THEN Released(deque_free(r.d, r.nodes, r.slots), r.err)
            ELSE deque_copy_loop(r.d, r.nodes, r.slots, heapNodes[node].next, i + 1, failAt, orc)
    IN IF node = NULL
       THEN [d |-> copy, nodes |-> heapNodes, slots |-> heapSlots, err |-> "none"]
       ELSE Pushed(deque_push(copy, heapNodes, heapSlots, ValueOf(heapNodes, heapSlots, node),
                              OracleAt(i, failAt, orc)))

deque_copy(deque, heapNodes, heapSlots, sc) ==
    LET Constructed(c) ==
            IF c.d = NoObject
            THEN [d |-> NoObject, nodes |-> heapNodes, slots |-> heapSlots, err |-> c.err]
            ELSE deque_copy_loop(c.d, heapNodes, heapSlots, deque.front, 1, sc.failAt, sc.orc)
    IN Constructed(deque_construct(deque.width, deque.limit, deque.copy, sc.mallocOk))

RECURSIVE deque_clone_loop(_, _, _, _, _, _, _, _)
\* second variant: for each node of the deque
\*     if (deque_push(clone, node->data) == false) { deque_free(deque); return NULL; }
\* the argument is freed, the clone built so far is dropped with its nodes in place
deque_clone_loop(deque, clone, heapNodes, heapSlots, node, i, failAt, orc) ==
    LET Released(f, err) ==
            [d |-> NoObject, source |-> Freed, nodes |-> f.nodes, slots |-> f.slots, err |-> err]
        Pushed(r) ==
            IF ~r.ok THEN Released(deque_free(deque, r.nodes, r.slots), r.err)
            ELSE deque_clone_loop(deque, r.d, r.nodes, r.slots, heapNodes[node].next, i + 1,
                                  failAt, orc)
    IN IF node = NULL
       THEN [d |-> clone, source |-> deque, nodes |-> heapNodes, slots |-> heapSlots,
             err |-> "none"]
       ELSE Pushed(deque_push(clone, heapNodes, heapSlots, ValueOf(heapNodes, heapSlots, node),
                              OracleAt(i, failAt, orc)))

deque_clone(deque, heapNodes, heapSlots, sc) ==
    LET Constructed(c) ==
            IF c.d = NoObject
            THEN [d |-> NoObject, source |-> deque, nodes |-> heapNodes, slots |-> heapSlots,
                  err |-> c.err]
            ELSE deque_clone_loop(deque, c.d, heapNodes, heapSlots, deque.front, 1, sc.failAt,
                                  sc.orc)
    IN Constructed(deque_construct(deque.width, deque.limit, deque.copy, sc.mallocOk))

(***************************************************************************)
(* Calls of the deque interface                                            *)
(***************************************************************************)
DequeConstruct ==
    /\ ~aborted /\ family = "deque" /\ obj[1] = NoObject /\ obj[2] = NoObject
    /\ \E width \in Widths, limit \in NodeLimits, copy \in BOOLEAN, mallocOk \in BOOLEAN :
        obj' = Set(1, deque_construct(width, limit, copy, mallocOk).d)
    /\ UNCHANGED <<family, slots, nodes, aborted>>

DequeCopy(h) ==
    /\ ~aborted /\ family = "deque" /\ IsObject(obj[h]) /\ obj[Other(h)] = NoObject
    /\ \E sc \in NodeCopyScenarios(obj[h].size) :
        LET c == deque_copy(obj[h], nodes, slots, sc) IN
        Commit(Set(Other(h), c.d), c.slots, c.nodes)
    /\ UNCHANGED <<family, aborted>>

\* after a failed deque_clone the caller's pointer dangles
DequeClone(h) ==
    /\ ~aborted /\ family = "deque" /\ IsObject(obj[h]) /\ obj[Other(h)] = NoObject
    /\ \E sc \in NodeCopyScenarios(obj[h].size) :
        LET c == deque_clone(obj[h], nodes, slots, sc) IN
        Commit([obj EXCEPT ![h] = c.source, ![Other(h)] = c.d], c.slots, c.nodes)
    /\ UNCHANGED <<family, aborted>>

\* any call on a dangling deque reads freed memory: it goes unnoticed or the program dies
DequeDangling(h) ==
    /\ ~aborted /\ family = "deque" /\ obj[h] = Freed
    /\ aborted' \in BOOLEAN
    /\ UNCHANGED <<family, obj, slots, nodes>>

DequeFree(h) ==
    /\ ~aborted /\ family = "deque" /\ IsObject(obj[h])
    /\ LET f == deque_free(obj[h], nodes, slots) IN Commit(Set(h, NoObject), f.slots, f.nodes)
    /\ UNCHANGED <<family, aborted>>

DequeClear(h) ==
    /\ ~aborted /\ family = "deque" /\ IsObject(obj[h])
    /\ LET r == deque_clear(obj[h], nodes, slots) IN Commit(Set(h, r.d), r.slots, r.nodes)
    /\ UNCHANGED <<family, aborted>>

DequePush(h) ==
    /\ ~aborted /\ family = "deque" /\ IsObject(obj[h])
    /\ \E value \in Pointers, orc \in NodeOracles :
        LET r == deque_push(obj[h], nodes, slots, value, orc) IN
        Commit(Set(h, r.d), r.slots, r.nodes)
    /\ UNCHANGED <<family, aborted>>

DequeUnshift(h) ==
    /\ ~aborted /\ family = "deque" /\ IsObject(obj[h])
    /\ \E value \in Pointers, orc \in NodeOracles :
        LET r == deque_unshift(obj[h], nodes, slots, value, orc) IN
        Commit(Set(h, r.d), r.slots, r.nodes)
    /\ UNCHANGED <<family, aborted>>

DequePop(h) ==
    /\ ~aborted /\ family = "deque" /\ IsObject(obj[h])
    /\ \E destination \in Destinations, orc \in GetOracles :
        LET r == deque_pop(obj[h], nodes, slots, destination, orc) IN
        Commit(Set(h, r.d), r.slots, r.nodes)
    /\ UNCHANGED <<family, aborted>>

DequeShift(h) ==
    /\ ~aborted /\ family = "deque" /\ IsObject(obj[h])
    /\ \E destination \in Destinations, orc \in GetOracles :
        LET r == deque_shift(obj[h], nodes, slots, destination, orc) IN
        Commit(Set(h, r.d), r.slots, r.nodes)
    /\ UNCHANGED <<family, aborted>>

\* reads: the result goes to the caller's destination, the state stays
DequeFront(h) ==
    /\ ~aborted /\ family = "deque" /\ IsObject(obj[h])
    /\ \E destination \in Destinations, orc \in GetOracles :
        deque_front(obj[h], nodes, slots, destination, orc).ok \in BOOLEAN
    /\ UNCHANGED vars

DequeBack(h) ==
    /\ ~aborted /\ family = "deque" /\ IsObject(obj[h])
    /\ \E destination \in Destinations, orc \in GetOracles :
        deque_back(obj[h], nodes, slots, destination, orc).ok \in BOOLEAN
    /\ UNCHANGED vars

DequeNext ==
    \/ DequeConstruct
    \/ \E h \in Handles : DequeCopy(h)
    \/ \E h \in Handles : DequeClone(h)
    \/ \E h \in Handles : DequeDangling(h)
    \/ \E h \in Handles : DequeFree(h)
    \/ \E h \in Handles : DequeClear(h)
    \/ \E h \in Handles : DequePush(h)
    \/ \E h \in Handles : DequeUnshift(h)
    \/ \E h \in Handles : DequePop(h)
    \/ \E h \in Handles : DequeShift(h)
    \/ \E h \in Handles : DequeFront(h)
    \/ \E h \in Handles : DequeBack(h)

(***************************************************************************)
(* The deque of src/deque/deque.c: no limit, no copy hook, and a pop or    *)
(* shift that needs a destination.  Its functions carry the suffix _src    *)
(* where the name is taken; they work on the same record and node heap.    *)
(***************************************************************************)
deque_isempty(deque) == deque.front = NULL
deque_isfull(deque) == deque.size = SIZE_MAX

_construct_node(heapNodes, heapSlots, data, width, orc) ==
    LET Failed(err) == [new |-> NULL, nodes |-> heapNodes, slots |-> heapSlots, err |-> err]
        Filled(node, new) ==
            IF new = NULL THEN Failed("ENOMEM")
            ELSE [new |-> node,
                  nodes |-> [heapNodes EXCEPT ![node] = [live |-> TRUE, value |-> new,
                                                         next |-> NULL, previous |-> NULL]],
                  slots |-> [heapSlots EXCEPT ![new] = [live |-> TRUE, val |-> data]],
                  err |-> "none"]
        Allocated(node) ==
            IF node = NULL THEN Failed("ENOMEM") ELSE Filled(node, malloc(heapSlots, orc.malloc))
    IN IF data = NULL \/ width = 0 THEN Failed("EINVAL")
       ELSE Allocated(malloc(heapNodes, orc.node))

_free_node(heapNodes, heapSlots, node) ==
    IF node = NULL THEN [nodes |-> heapNodes, slots |-> heapSlots]
    ELSE [nodes |-> free(heapNodes, node), slots |-> free(heapSlots, heapNodes[node].value)]

deque_front_src(deque, heapNodes, heapSlots, destination) ==
    IF destination = NULL \/ deque_isempty(deque)
    THEN [ok |-> FALSE, err |-> "EINVAL", out |-> NULL]
    ELSE [ok |-> TRUE, err |-> "none", out |-> ValueOf(heapNodes, heapSlots, deque.front)]

deque_back_src(deque, heapNodes, heapSlots, destination) ==
    IF destination = NULL \/ deque_isempty(deque)
    THEN [ok |-> FALSE, err |-> "EINVAL", out |-> NULL]
    ELSE [ok |-> TRUE, err |-> "none", out |-> ValueOf(heapNodes, heapSlots, deque.back)]

deque_unshift_src(deque, heapNodes, heapSlots, data, orc) ==
    LET Failed(err) ==
            [d |-> deque, nodes |-> heapNodes, slots |-> heapSlots, ok |-> FALSE, err |-> err]
        Constructed(c) ==
            IF c.new = NULL THEN Failed(c.err)
            ELSE IF deque_isempty(deque)
            THEN [d |-> [deque EXCEPT !.front = c.new, !.back = c.new, !.size = @ + 1],
                  nodes |-> c.nodes, slots |-> c.slots, ok |-> TRUE, err |-> "none"]
            ELSE [d |-> [deque EXCEPT !.front = c.new, !.size = @ + 1],
                  nodes |-> [c.nodes EXCEPT ![deque.front].previous = c.new,
                                            ![c.new].next = deque.front],
                  slots |-> c.slots, ok |-> TRUE, err |-> "none"]
    IN IF data = NULL THEN Failed("EINVAL")
       ELSE IF deque_isfull(deque) THEN Failed("ENOSPC")
       ELSE Constructed(_construct_node(heapNodes, heapSlots, data, deque.width, orc))

deque_push_src(deque, heapNodes, heapSlots, data, orc) ==
    LET Failed(err) ==
            [d |-> deque, nodes |-> heapNodes, slots |-> heapSlots, ok |-> FALSE, err |-> err]
        Constructed(c) ==
            IF c.new = NULL THEN Failed(c.err)
            ELSE IF deque_isempty(deque)
            THEN [d |-> [deque EXCEPT !.front = c.new, !.back = c.new, !.size = @ + 1],
                  nodes |-> c.nodes, slots |-> c.slots, ok |-> TRUE, err |-> "none"]
            ELSE [d |-> [deque EXCEPT !.back = c.new, !.size = @ + 1],
                  nodes |-> [c.nodes EXCEPT ![deque.back].next = c.new,
                                            ![c.new].previous = deque.back],
                  slots |-> c.slots, ok |-> TRUE, err |-> "none"]
    IN IF data = NULL THEN Failed("EINVAL")
       ELSE IF deque_isfull(deque) THEN Failed("ENOSPC")
       ELSE Constructed(_construct_node(heapNodes, heapSlots, data, deque.width, orc))

deque_shift_src(deque, heapNodes, heapSlots, destination) ==
    LET Removed(read, front, f) ==
            [d |-> [deque EXCEPT !.front = front, !.back = IF front = NULL THEN NULL ELSE @,
                                 !.size = @ - 1],
             nodes |-> IF front = NULL THEN f.nodes
                       ELSE [f.nodes EXCEPT ![front].previous = NULL],
             slots |-> f.slots, ok |-> TRUE, err |-> "none", out |-> read.out]
        Read(read) ==
            IF ~read.ok
            THEN [d |-> deque, nodes |-> heapNodes, slots |-> heapSlots, ok |-> FALSE,
                  err |-> read.err, out |-> NULL]
            ELSE Removed(read, heapNodes[deque.front].next,
                         _free_node(heapNodes, heapSlots, deque.front))
    IN Read(deque_front_src(deque, heapNodes, heapSlots, destination))

deque_pop_src(deque, heapNodes, heapSlots, destination) ==
    LET Removed(read, back, f) ==
            [d |-> [deque EXCEPT !.back = back, !.front = IF back = NULL THEN NULL ELSE @,
                                 !.size = @ - 1],
             nodes |-> IF back = NULL THEN f.nodes ELSE [f.nodes EXCEPT ![back].next = NULL],
             slots |-> f.slots, ok |-> TRUE, err |-> "none", out |-> read.out]
        Read(read) ==
            IF ~read.ok
            THEN [d |-> deque, nodes |-> heapNodes, slots |-> heapSlots, ok |-> FALSE,
                  err |-> read.err, out |-> NULL]
            ELSE Removed(read, heapNodes[deque.back].previous,
                         _free_node(heapNodes, heapSlots, deque.back))
    IN Read(deque_back_src(deque, heapNodes, heapSlots, destination))

(***************************************************************************)
(* The program: a caller that builds containers of one family and calls    *)
(* their interface in any order.                                           *)
(***************************************************************************)
Families == {"vector", "list", "stack", "queue", "deque"}

InitOf(f) ==
    /\ family = f
    /\ obj = [h \in Handles |-> NoObject]
    /\ slots = [i \in SlotIds |-> FreeSlot]
    /\ nodes = [i \in NodeIds |-> FreeNode]
    /\ aborted = FALSE

Init == \E f \in Families : InitOf(f)

Next ==
    \/ VectorNext
    \/ ListNext
    \/ StackNext
    \/ QueueNext
    \/ DequeNext

Spec == Init /\ [][Next]_vars

\* the caller of one family
InitVector == InitOf("vector")
SpecVector == InitVector /\ [][VectorNext]_vars
InitList == InitOf("list")
SpecList == InitList /\ [][ListNext]_vars

InitStack == InitOf("stack")
SpecStack == InitStack /\ [][StackNext]_vars
InitQueue == InitOf("queue")
SpecQueue == InitQueue /\ [][QueueNext]_vars
InitDeque == InitOf("deque")
SpecDeque == InitDeque /\ [][DequeNext]_vars

\* the caller of stack_reserve of the stack that accepts an increment of 1.5
InitReserve == InitOf("reserve")
\* a call that has started goes on running: the loop and the return are steps of one thread
SpecReserve ==
    InitReserve /\ [][ReserveNext]_vars /\ WF_vars(ReserveIterate) /\ WF_vars(ReserveReturn)

\* the caller of the bitarray
InitBitarray == InitOf("bitarray")
SpecBitarray == InitBitarray /\ [][BitarrayNext]_vars

\* the caller of vector_reserve on vectors with room to grow
InitGrow == InitOf("grow")
SpecGrow == InitGrow /\ [][GrowNext]_vars

\* the caller of the vector whose _data_construct releases with _data_free
SpecHooked == InitVector /\ [][HookedNext]_vars

\* the caller of the queue kept by head and tail
InitHead == InitOf("head")
SpecHead == InitHead /\ [][HeadNext]_vars

\* two threads that sort a vector each
SpecSort == InitSort /\ [][SortNext]_vars
\* one thread that sorts its vector while the other stays out of vector_sort
SpecSortAlone == InitSort /\ [][SortAloneNext]_vars
(***************************************************************************)
(* Properties.  A property of a call is stated in every reachable state,   *)
(* for every input of the call, on the record the call yields.             *)
(***************************************************************************)
\* the handles that hold a container of family f
Holding(f) == {h \in Handles : family = f /\ IsObject(obj[h])}
\* the values of a vector, by index
Elements(v, heap) == [i \in DOMAIN v.data |-> heap[v.data[i]].val]
\* sequence s with x put at (0-based) index
InsertAt(s, index, x) == SubSeq(s, 1, index) \o <<x>> \o SubSeq(s, index + 1, Len(s))

\* C1: after every vector call, succeeded or failed, size <= capacity <= limit
C1_CapacityInvariant ==
    \A h \in Holding("vector") :
        /\ obj[h].size <= obj[h].capacity
        /\ obj[h].capacity <= obj[h].limit
        /\ Len(obj[h].data) = obj[h].size

\* a vector grown to its limit: size = capacity = limit, two elements
C1_Witness ==
    \E h \in Holding("vector") :
        obj[h].size = obj[h].limit /\ obj[h].capacity = obj[h].limit /\ obj[h].size >= 2

\* the nodes of a list, front to back
NodesOf(list, heapNodes) == Walk(heapNodes, list.front, MaxSlots)
\* the values of a list, front to back
ValuesOf(list, heapNodes, heapSlots) ==
    [i \in DOMAIN NodesOf(list, heapNodes) |->
        ValueOf(heapNodes, heapSlots, NodesOf(list, heapNodes)[i])]
\* the (1-based) place of node n in the chain w
PlaceOf(w, n) == CHOOSE i \in DOMAIN w : w[i] = n

\* C2: list_sort is stable: two elements that compare equal keep their relative order
C2_SortStable ==
    \A h \in Holding("list") :
        LET before == NodesOf(obj[h], nodes)
            r == list_sort(obj[h], nodes, slots)
            after == NodesOf(r.l, r.nodes)
        IN \A i, j \in DOMAIN before :
            (i < j /\ compare(ValueOf(nodes, slots, before[i]),
                              ValueOf(nodes, slots, before[j])) = 0)
                => PlaceOf(after, before[i]) < PlaceOf(after, before[j])

\* C3: vector_insert that fails at the construction of the slot (allocation or clone hook),
\* vector_reserve having succeeded, leaves size, elements and capacity as they were
C3_InsertFailureRestores ==
    \A h \in Holding("vector") : \A index \in 0..obj[h].size, data \in Values,
                                    orc \in InsertOracles :
        LET r == vector_insert(obj[h], slots, index, data, orc) IN
        (~vector_full(obj[h]) /\ orc.realloc /\ ~r.ok) =>
            /\ r.v.size = obj[h].size
            /\ Elements(r.v, r.slots) = Elements(obj[h], slots)
            /\ r.v.capacity = obj[h].capacity

\* C4: vector_reserve never lowers capacity; true means capacity >= n; n > limit is EINVAL and
\* a failed reallocation is ENOMEM, both leaving capacity, size and elements as they were
C4_Reserve ==
    \A h \in Holding("vector") : \A n \in Capacities, reallocOk \in BOOLEAN :
        LET v == obj[h]
            r == vector_reserve(v, n, reallocOk) IN
        /\ r.v.capacity >= v.capacity
        /\ r.ok => r.v.capacity >= n /\ r.v.capacity <= v.limit
        /\ n > v.limit => ~r.ok /\ r.err = "EINVAL"
        /\ (n <= v.limit /\ n > v.capacity /\ ~reallocOk) => ~r.ok /\ r.err = "ENOMEM"
        /\ (n <= v.limit /\ (n <= v.capacity \/ reallocOk)) => r.ok
        /\ ~r.ok => r.v = v
        /\ r.v.size = v.size /\ Elements(r.v, slots) = Elements(v, slots)

\* a vector with an element whose capacity a reserve must grow, and one it must refuse
C4_Witness ==
    \E h \in Holding("vector") :
        /\ obj[h].size >= 1 /\ obj[h].capacity < obj[h].limit
        /\ vector_reserve(obj[h], obj[h].limit, TRUE).v.capacity = obj[h].limit
        /\ ~vector_reserve(obj[h], obj[h].limit, FALSE).ok
        /\ ~vector_reserve(obj[h], obj[h].limit + 1, TRUE).ok

RECURSIVE InsertEachAtFront(_, _, _)
\* vector_insert(vector, 0, x) for each x of xs in turn
InsertEachAtFront(v, heap, xs) ==
    IF xs = <<>> THEN [v |-> v, slots |-> heap]
    ELSE LET r == vector_insert(v, heap, 0, Head(xs), AllOk)
         IN InsertEachAtFront(r.v, r.slots, Tail(xs))

\* C5: a successful vector_insert(index, x) adds one to size, puts a copy of x at index, keeps
\* the elements before index and moves the others one up; 2,3,5,1,4 each inserted at index 0
\* give [4,1,5,3,2]
C5_Insert ==
    /\ \A h \in Holding("vector") : \A index \in 0..obj[h].size, data \in Values,
                                       orc \in InsertOracles :
        LET r == vector_insert(obj[h], slots, index, data, orc) IN
        r.ok =>
            /\ r.v.size = obj[h].size + 1
            /\ Elements(r.v, r.slots) = InsertAt(Elements(obj[h], slots), index, data)
            /\ vector_get(r.v, r.slots, index, 1, AllOk) =
                  [ok |-> TRUE, err |-> "none", out |-> data]
    /\ LET e == InsertEachAtFront(vector_construct(1, 5, 0, IncrementMin, FALSE, TRUE, TRUE).v,
                                  [i \in 1..5 |-> FreeSlot], <<2, 3, 5, 1, 4>>)
       IN Elements(e.v, e.slots) = <<4, 1, 5, 3, 2>>

\* a vector with an element and room for one more: an insert at index 0 moves the element up
C5_Witness ==
    \E h \in Holding("vector") : \E data \in Values :
        LET r == vector_insert(obj[h], slots, 0, data, AllOk) IN
        /\ obj[h].size >= 1 /\ r.ok
        /\ Elements(r.v, r.slots)[2] = Elements(obj[h], slots)[1]
        /\ Elements(r.v, r.slots)[1] # Elements(obj[h], slots)[1]

\* the outcome of a call, whatever the family: the container, the heaps, the verdict
Outcome(c, heapNodes, heapSlots, ok, err) ==
    [c |-> c, nodes |-> heapNodes, slots |-> heapSlots, ok |-> ok, err |-> err]
\* the inserting calls of the family on the container of handle h
Inserts(h, value, orc) ==
    LET V(r) == Outcome(r.v, nodes, r.slots, r.ok, r.err)
        S(r) == Outcome(r.s, nodes, r.slots, r.ok, r.err)
        L(r) == Outcome(r.l, r.nodes, r.slots, r.ok, r.err)
        Q(r) == Outcome(r.q, r.nodes, r.slots, r.ok, r.err)
        D(r) == Outcome(r.d, r.nodes, r.slots, r.ok, r.err)
    IN CASE family = "vector" ->
                {V(vector_insert(obj[h], slots, index, value, orc)) : index \in 0..obj[h].size}
         [] family = "stack" -> {S(stack_push(obj[h], slots, value, orc))}
         [] family = "list" ->
                {L(list_insert(obj[h], nodes, slots, index, value, orc)) :
                    index \in 0..obj[h].size}
         [] family = "queue" -> {Q(queue_enqueue(obj[h], nodes, slots, value, orc))}
         [] family = "deque" -> {D(deque_push(obj[h], nodes, slots, value, orc)),
                                 D(deque_unshift(obj[h], nodes, slots, value, orc))}

\* C6: an inserting call with valid arguments on a container with size = limit returns false
\* with ENOSPC and leaves the container as it was; size <= limit in every reachable state
C6_FullRefuses ==
    \A h \in Handles : IsObject(obj[h]) =>
        /\ obj[h].size <= obj[h].limit
        /\ Len(Contents(obj[h], nodes, slots)) = obj[h].size
        /\ obj[h].size = obj[h].limit =>
              \A value \in Values, orc \in Oracles : \A r \in Inserts(h, value, orc) :
                  r = Outcome(obj[h], nodes, slots, FALSE, "ENOSPC")

\* a container that holds two elements and is full
C6_Witness ==
    \E h \in Handles : IsObject(obj[h]) /\ obj[h].size = obj[h].limit /\ obj[h].size = 2

\* sequence s is ordered by compare: every adjacent pair has sign * compare(p, n) <= 0
Ordered(s, sign) == \A i \in 1..(Len(s) - 1) : sign * compare(s[i], s[i + 1]) <= 0
\* how many times x occurs in s
Count(s, x) == Cardinality({i \in DOMAIN s : s[i] = x})
\* s and t hold the same elements, each as many times
SameMultiset(s, t) == Len(s) = Len(t) /\ \A x \in Values : Count(s, x) = Count(t, x)

\* C7: after list_sort every adjacent pair (p, n) has compare(p, n) <= 0 (>= 0 under the
\* reverse flag of the variant that takes one), the elements are the same multiset and size
\* is unchanged
C7_SortOrders ==
    \A h \in Holding("list") :
        LET before == ValuesOf(obj[h], nodes, slots)
            r == list_sort(obj[h], nodes, slots)
        IN /\ r.ok
           /\ Ordered(ValuesOf(r.l, r.nodes, r.slots), 1)
           /\ SameMultiset(before, ValuesOf(r.l, r.nodes, r.slots))
           /\ r.l.size = obj[h].size /\ r.l.size = Len(ValuesOf(r.l, r.nodes, r.slots))
           /\ \A reverse \in BOOLEAN, cmp \in Comparators :
                LET q == list_sort_reverse(obj[h], nodes, slots, reverse, cmp) IN
                /\ q.ok
                /\ \A i \in 1..(q.l.size - 1) :
                      Sign(reverse) * Compared(cmp, ValuesOf(q.l, q.nodes, q.slots)[i],
                                               ValuesOf(q.l, q.nodes, q.slots)[i + 1]) <= 0
                /\ SameMultiset(before, ValuesOf(q.l, q.nodes, q.slots))
                /\ q.l.size = obj[h].size

\* a list whose two elements are out of order, which list_sort exchanges
C7_Witness ==
    \E h \in Holding("list") :
        /\ obj[h].size = 2
        /\ ~Ordered(ValuesOf(obj[h], nodes, slots), 1)
        /\ ValuesOf(list_sort(obj[h], nodes, slots).l, list_sort(obj[h], nodes, slots).nodes,
                    slots) # ValuesOf(obj[h], nodes, slots)

\* the slots a container owns, and its nodes
SlotsOf(o, heapNodes) ==
    IF IsArray THEN Range(Array(o))
    ELSE {heapNodes[n].value : n \in Range(Walk(heapNodes, o.front, MaxSlots))}
NodesIn(o, heapNodes) == IF IsArray THEN {} ELSE Range(Walk(heapNodes, o.front, MaxSlots))
\* a whole-container copy during which nothing fails
NothingFails == [mallocOk |-> TRUE, dataOk |-> TRUE, failAt |-> 0, orc |-> AllOk]
\* the copying call of the family on the container of handle h
CopyOf(h, sc) ==
    LET V(r) == Outcome(r.v, nodes, r.slots, r.err = "none", r.err)
        S(r) == Outcome(r.s, nodes, r.slots, r.err = "none", r.err)
        L(r) == Outcome(r.l, r.nodes, r.slots, r.err = "none", r.err)
        Q(r) == Outcome(r.q, r.nodes, r.slots, r.err = "none", r.err)
        D(r) == Outcome(r.d, r.nodes, r.slots, r.err = "none", r.err)
    IN CASE family = "vector" -> V(vector_clone(obj[h], slots, sc))
         [] family = "stack" -> S(stack_copy(obj[h], slots, sc))
         [] family = "list" -> L(list_copy(obj[h], nodes, slots, sc))
         [] family = "queue" -> Q(queue_copy(obj[h], nodes, slots, sc))
         [] family = "deque" -> D(deque_copy(obj[h], nodes, slots, sc))
\* containers a and b share no slot and no node, and every slot they own is allocated
Apart(a, b, heapNodes, heapSlots) ==
    /\ SlotsOf(a, heapNodes) \cap SlotsOf(b, heapNodes) = {}
    /\ NodesIn(a, heapNodes) \cap NodesIn(b, heapNodes) = {}
    /\ \A s \in SlotsOf(a, heapNodes) \cup SlotsOf(b, heapNodes) : heapSlots[s].live
\* the copy of a container holds the same sequence in slots of its own, allocated by the call
Copied(h, r) ==
    r.ok =>
        /\ IsObject(r.c)
        /\ Contents(r.c, r.nodes, r.slots) = Contents(obj[h], nodes, slots)
        /\ Contents(obj[h], r.nodes, r.slots) = Contents(obj[h], nodes, slots)
        /\ Apart(r.c, obj[h], r.nodes, r.slots)
        /\ Cardinality(SlotsOf(r.c, r.nodes)) = obj[h].size
        /\ \A s \in SlotsOf(r.c, r.nodes) : ~slots[s].live
\* a call on one of two containers leaves the other, and what it holds, as it was
OtherIntact ==
    (IsObject(obj[1]) /\ IsObject(obj[2]) /\ ~aborted') =>
        \E h \in Handles :
            /\ IsObject(obj'[h])
            /\ Contents(obj'[h], nodes', slots') = Contents(obj[h], nodes, slots)

\* C8: list_copy, vector_clone, stack_copy, queue_copy and deque_copy return a container with
\* the sequence of the source, every slot of it constructed by the call and none shared;
\* clearing, freeing or changing one of the two afterwards leaves what the other holds
C8_CopyIndependent ==
    /\ [](\A h \in Handles : IsObject(obj[h]) => Copied(h, CopyOf(h, NothingFails)))
    /\ []((IsObject(obj[1]) /\ IsObject(obj[2])) => Apart(obj[1], obj[2], nodes, slots))
    /\ [][OtherIntact]_vars

\* a container of two different elements and its copy
C8_Witness ==
    /\ IsObject(obj[1]) /\ IsObject(obj[2]) /\ obj[1].size = 2
    /\ Contents(obj[1], nodes, slots) = Contents(obj[2], nodes, slots)
    /\ Contents(obj[1], nodes, slots)[1] # Contents(obj[1], nodes, slots)[2]

\* the copying calls named by C9 on the container of handle h; source is the argument after
\* the call
CopiesThatMayFail(h, sc) ==
    LET V(r) == [c |-> r.v, source |-> obj[h], nodes |-> nodes, slots |-> r.slots, err |-> r.err]
        L(r) == [c |-> r.l, source |-> obj[h], nodes |-> r.nodes, slots |-> r.slots,
                 err |-> r.err]
        D(r) == [c |-> r.d, source |-> r.source, nodes |-> r.nodes, slots |-> r.slots,
                 err |-> r.err]
    IN CASE family = "vector" -> {V(vector_clone(obj[h], slots, sc)),
                                  V(vector_reverse(obj[h], slots, sc))}
         [] family = "list" -> {L(list_copy(obj[h], nodes, slots, sc)),
                                L(list_reverse(obj[h], nodes, slots, sc))}
         [] family = "deque" -> {D(deque_clone(obj[h], nodes, slots, sc))}
         [] OTHER -> {}

\* C9: when an insertion fails part-way through list_copy, list_reverse, vector_clone,
\* vector_reverse or deque_clone, the call returns NULL, everything built for the new
\* container is released and the source is as it was
C9_FailedCopyReleases ==
    \A h \in Handles : IsObject(obj[h]) =>
        \A sc \in CopyScenarios(obj[h].size, Oracles) :
            \A r \in CopiesThatMayFail(h, sc) :
                (sc.failAt >= 1 /\ r.err # "none") =>
                    /\ r.c = NoObject
                    /\ r.slots = slots /\ r.nodes = nodes
                    /\ r.source = obj[h]

\* the removing calls named by C10 on the container of handle h, with a destination
RemovesTo(h, orc) ==
    LET V(r) == Outcome(r.v, nodes, r.slots, r.ok, r.err)
        S(r) == Outcome(r.s, nodes, r.slots, r.ok, r.err)
        L(r) == Outcome(r.l, r.nodes, r.slots, r.ok, r.err)
    IN CASE family = "vector" ->
                {V(vector_remove(obj[h], slots, index, 1, orc)) : index \in 0..(obj[h].size - 1)}
         [] family = "stack" -> {S(stack_pop(obj[h], slots, 1, orc))}
         [] family = "list" ->
                {L(list_remove(obj[h], nodes, slots, index, 1, orc)) :
                    index \in 0..(obj[h].size - 1)}
         [] OTHER -> {}
\* the container has a clone hook
Hooked(o) == IF family = "vector" THEN o.clone ELSE o.copy

SlotSeq(o, heapNodes) ==
    IF IsArray THEN Array(o)
    ELSE LET w == Walk(heapNodes, o.front, MaxSlots) IN [i \in DOMAIN w |-> heapNodes[w[i]].value]
\* vector_set or list_set on the container of handle h
SetOf(h, index, value, orc) ==
    LET V(r) == Outcome(r.v, nodes, r.slots, r.ok, r.err)
        L(r) == Outcome(r.l, r.nodes, r.slots, r.ok, r.err)
    IN IF family = "vector" THEN V(vector_set(obj[h], slots, index, value, orc))
       ELSE L(list_set(obj[h], nodes, slots, index, value, orc))
\* the call replaced the element at index: a new slot holds value there, the old slot is
\* destroyed, every other slot is where it was
Replaces(h, index, value, r) ==
    LET old == SlotSeq(obj[h], nodes)
        new == SlotSeq(r.c, r.nodes)
    IN /\ Contents(r.c, r.nodes, r.slots) =
              [Contents(obj[h], nodes, slots) EXCEPT ![index + 1] = value]
       /\ r.c.size = obj[h].size
       /\ new = [old EXCEPT ![index + 1] = new[index + 1]]
       /\ new[index + 1] # old[index + 1]
       /\ ~slots[new[index + 1]].live /\ r.slots[new[index + 1]].live
       /\ ~r.slots[old[index + 1]].live

\* C11: vector_set and list_set with a valid index replace the element at that index alone and
\* destroy the old slot only once the new one is constructed; when the construction fails the
\* call returns false and the container, the old slot included, is as it was
C11_SetReplaces ==
    \A h \in Handles : (IsObject(obj[h]) /\ family \in {"vector", "list"}) =>
        \A index \in 0..(obj[h].size - 1), value \in Values, orc \in Oracles :
            LET r == SetOf(h, index, value, orc) IN
            /\ r.ok => Replaces(h, index, value, r)
            /\ ~r.ok => r = Outcome(obj[h], nodes, slots, FALSE, r.err)
            /\ (~orc.malloc \/ (Hooked(obj[h]) /\ ~orc.hook)) => ~r.ok

\* a vector or list of two elements where a set of the second succeeds, and fails when the
\* allocation of the new slot fails
C11_Witness ==
    \E h \in Handles : \E value \in Values :
        /\ IsObject(obj[h]) /\ family \in {"vector", "list"} /\ obj[h].size = 2
        /\ value # Contents(obj[h], nodes, slots)[2]
        /\ SetOf(h, 1, value, AllOk).ok
        /\ ~SetOf(h, 1, value, [AllOk EXCEPT !.malloc = FALSE]).ok

\* sequence s without the element at (0-based) index
RemoveAt(s, index) == SubSeq(s, 1, index) \o SubSeq(s, index + 2, Len(s))

AsVector(s) ==
    IF s = NoObject THEN NoObject
    ELSE [size |-> s.size, width |-> s.width, limit |-> s.limit, capacity |-> s.capacity,
          increment |-> s.growth, data |-> s.values, buf |-> s.buf, clone |-> s.copy]
\* size - 1 in size_t
LastIndex(size) == (size - 1) % (SIZE_MAX + 1)
\* a stack call and a vector call end alike: verdict, errno, container and heap
Alike(rs, rv) ==
    rs.ok = rv.ok /\ rs.err = rv.err /\ AsVector(rs.s) = rv.v /\ rs.slots = rv.slots
\* stack_construct and vector_construct answer the same parameters alike (the array allocated)
ConstructedAlike ==
    \A width \in Widths, limit \in StackLimits, capacity \in Capacities,
       growth \in Increments, copy \in BOOLEAN, mallocOk \in BOOLEAN :
        LET rs == stack_construct(width, limit, capacity, growth, copy, mallocOk, TRUE)
            rv == vector_construct(width, limit, capacity, growth, copy, mallocOk, TRUE)
        IN AsVector(rs.s) = rv.v /\ rs.err = rv.err

\* C13: the stack is an alias of the vector: stack_push, stack_pop, stack_peek, stack_reserve,
\* stack_trim and stack_clear answer as vector_insert at index size, vector_remove and
\* vector_get at index size - 1, vector_reserve, vector_trim and vector_clear do on the vector
\* of the same parameters and elements, and leave the same sizes, capacities and elements;
\* a pop delivers the value pushed last
C13_StackIsVector ==
    /\ ConstructedAlike
    /\ \A h \in Holding("stack") :
        LET s == obj[h]
            v == AsVector(obj[h]) IN
        /\ \A value \in Pointers, orc \in Oracles :
            LET rs == stack_push(s, slots, value, orc)
                rv == vector_insert(v, slots, v.size, value, orc)
                back == stack_pop(rs.s, rs.slots, 1, AllOk)
            IN /\ Alike(rs, rv)
               /\ rs.ok => /\ back.ok /\ back.out = value
                            /\ Elements(AsVector(back.s), back.slots) = Elements(v, slots)
        /\ \A destination \in Destinations, orc \in Oracles :
            LET rs == stack_pop(s, slots, destination, orc)
                rv == vector_remove(v, slots, LastIndex(v.size), destination, orc)
                ps == stack_peek(s, slots, destination, orc)
                pv == vector_get(v, slots, LastIndex(v.size), destination, orc)
            IN Alike(rs, rv) /\ rs.out = rv.out /\ ps = pv
        /\ \A size \in Capacities, reallocOk \in BOOLEAN :
            LET rs == stack_reserve(s, size, reallocOk)
                rv == vector_reserve(v, size, reallocOk)
                ts == stack_trim(s, reallocOk)
                tv == vector_trim(v, reallocOk)
            IN /\ rs.ok = rv.ok /\ rs.err = rv.err /\ AsVector(rs.s) = rv.v
               /\ ts.ok = tv.ok /\ ts.err = tv.err /\ AsVector(ts.s) = tv.v
        /\ Alike(stack_clear(s, slots), vector_clear(v, slots))

\* a stack of two different values whose pop delivers the second
C13_Witness ==
    \E h \in Holding("stack") :
        /\ obj[h].size = 2
        /\ Contents(obj[h], nodes, slots)[1] # Contents(obj[h], nodes, slots)[2]
        /\ stack_pop(obj[h], slots, 1, AllOk).out = Contents(obj[h], nodes, slots)[2]
        /\ vector_remove(AsVector(obj[h]), slots, 1, 1, AllOk).out =
              Contents(obj[h], nodes, slots)[2]

\* the queue after queue_enqueue(value), nothing failing
Enqueued(r, value) == queue_enqueue(r.q, r.nodes, r.slots, value, AllOk)
\* the queue after queue_dequeue into a destination, nothing failing
Dequeued(r) == queue_dequeue(r.q, r.nodes, r.slots, 1, AllOk)
\* enqueue 1, enqueue 2, dequeue, enqueue 3, dequeue, dequeue on a new queue: the values
\* delivered, in the order of the calls
Interleaved ==
    LET empty == [q |-> queue_construct(1, 3, FALSE, TRUE).q,
                  nodes |-> [i \in 1..3 |-> FreeNode], slots |-> [i \in 1..3 |-> FreeSlot]]
        d1 == Dequeued(Enqueued(Enqueued(empty, 1), 2))
        d2 == Dequeued(Enqueued(d1, 3))
        d3 == Dequeued(d2)
    IN <<d1.out, d2.out, d3.out, d3.q.size>>

\* C14: the queue is first in, first out: a successful queue_enqueue puts its value behind all
\* others, a successful queue_dequeue removes and delivers the oldest value, queue_peek
\* delivers the oldest value and removes nothing
C14_FirstInFirstOut ==
    /\ Interleaved = <<1, 2, 3, 0>>
    /\ \A h \in Holding("queue") :
        LET q == obj[h]
            held == ValuesOf(q, nodes, slots) IN
        /\ Len(held) = q.size
        /\ \A value \in Values, orc \in NodeOracles :
            LET r == queue_enqueue(q, nodes, slots, value, orc) IN
            /\ r.ok => ValuesOf(r.q, r.nodes, r.slots) = Append(held, value)
            /\ ~r.ok => ValuesOf(r.q, r.nodes, r.slots) = held
        /\ \A destination \in Destinations, orc \in GetOracles :
            LET r == queue_dequeue(q, nodes, slots, destination, orc)
                p == queue_peek(q, nodes, slots, destination, orc) IN
            /\ r.ok => /\ held # <<>> /\ ValuesOf(r.q, r.nodes, r.slots) = Tail(held)
                        /\ destination # NULL => r.out = Head(held)
            /\ ~r.ok => ValuesOf(r.q, r.nodes, r.slots) = held
            /\ p.ok => held # <<>> /\ p.out = Head(held)
            /\ (held # <<>> /\ (~q.copy \/ orc.hook)) => r.ok /\ (destination # NULL => p.ok)

\* a queue of two different values: a dequeue delivers the first, which enqueued again goes
\* behind the second
C14_Witness ==
    \E h \in Holding("queue") :
        LET held == ValuesOf(obj[h], nodes, slots)
            d == Dequeued([q |-> obj[h], nodes |-> nodes, slots |-> slots])
            e == Enqueued(d, held[1])
        IN /\ obj[h].size = 2 /\ held[1] # held[2]
           /\ d.out = held[1]
           /\ e.ok /\ ValuesOf(e.q, e.nodes, e.slots) = <<held[2], held[1]>>

\* the last element of a sequence, and the sequence without it
Last(s) == s[Len(s)]
Front(s) == SubSeq(s, 1, Len(s) - 1)
\* one insertion at an end of a deque, in the variant with a limit or in the one of src/deque
PutAtEnd(r, x, atBack, src) ==
    IF src THEN IF atBack THEN deque_push_src(r.d, r.nodes, r.slots, x, AllOk)
                ELSE deque_unshift_src(r.d, r.nodes, r.slots, x, AllOk)
    ELSE IF atBack THEN deque_push(r.d, r.nodes, r.slots, x, AllOk)
         ELSE deque_unshift(r.d, r.nodes, r.slots, x, AllOk)
\* one removal at an end of a deque
TakeAtEnd(r, atBack, src) ==
    IF src THEN IF atBack THEN deque_pop_src(r.d, r.nodes, r.slots, 1)
                ELSE deque_shift_src(r.d, r.nodes, r.slots, 1)
    ELSE IF atBack THEN deque_pop(r.d, r.nodes, r.slots, 1, AllOk)
         ELSE deque_shift(r.d, r.nodes, r.slots, 1, AllOk)
RECURSIVE Fill(_, _, _, _)
\* the deque after each x of xs is put at the end
Fill(r, xs, atBack, src) ==
    IF xs = <<>> THEN r ELSE Fill(PutAtEnd(r, Head(xs), atBack, src), Tail(xs), atBack, src)
RECURSIVE Drain(_, _, _)
\* the values delivered by removals at the end until the deque is empty
Drain(r, atBack, src) ==
    LET Taken(t) == <<t.out>> \o Drain(t, atBack, src)
    IN IF deque_empty(r.d) THEN <<>> ELSE Taken(TakeAtEnd(r, atBack, src))
\* a new deque in a memory of five nodes
NewDeque ==
    [d |-> deque_construct(1, 5, FALSE, TRUE).d, nodes |-> [i \in 1..5 |-> FreeNode],
     slots |-> [i \in 1..5 |-> FreeSlot]]
\* the answers of the two variants to a call on the deque of handle h that holds held
TwoEnded(h, held) ==
    /\ \A value \in Values, orc \in NodeOracles :
        LET p == deque_push(obj[h], nodes, slots, value, orc)
            u == deque_unshift(obj[h], nodes, slots, value, orc)
            ps == deque_push_src(obj[h], nodes, slots, value, orc)
            us == deque_unshift_src(obj[h], nodes, slots, value, orc) IN
        /\ ValuesOf(p.d, p.nodes, p.slots) = IF p.ok THEN Append(held, value) ELSE held
        /\ ValuesOf(u.d, u.nodes, u.slots) = IF u.ok THEN <<value>> \o held ELSE held
        /\ ValuesOf(ps.d, ps.nodes, ps.slots) = IF ps.ok THEN Append(held, value) ELSE held
        /\ ValuesOf(us.d, us.nodes, us.slots) = IF us.ok THEN <<value>> \o held ELSE held
        /\ p.ok => p.d.size = obj[h].size + 1 /\ deque_back(p.d, p.nodes, p.slots, 1, AllOk).out = value
        /\ u.ok => u.d.size = obj[h].size + 1 /\ deque_front(u.d, u.nodes, u.slots, 1, AllOk).out = value
        /\ ps.ok => deque_back_src(ps.d, ps.nodes, ps.slots, 1).out = value
        /\ us.ok => deque_front_src(us.d, us.nodes, us.slots, 1).out = value
    /\ \A destination \in Destinations, orc \in GetOracles :
        LET p == deque_pop(obj[h], nodes, slots, destination, orc)
            s == deque_shift(obj[h], nodes, slots, destination, orc)
            b == deque_back(obj[h], nodes, slots, destination, orc)
            f == deque_front(obj[h], nodes, slots, destination, orc)
            ps == deque_pop_src(obj[h], nodes, slots, destination)
            ss == deque_shift_src(obj[h], nodes, slots, destination) IN
        /\ ValuesOf(p.d, p.nodes, p.slots) = IF p.ok THEN Front(held) ELSE held
        /\ ValuesOf(s.d, s.nodes, s.slots) = IF s.ok THEN Tail(held) ELSE held
        /\ ValuesOf(ps.d, ps.nodes, ps.slots) = IF ps.ok THEN Front(held) ELSE held
        /\ ValuesOf(ss.d, ss.nodes, ss.slots) = IF ss.ok THEN Tail(held) ELSE held
        /\ (p.ok /\ destination # NULL) => p.out = Last(held)
        /\ (s.ok /\ destination # NULL) => s.out = Head(held)
        /\ b.ok => b.out = Last(held)
        /\ f.ok => f.out = Head(held)
        /\ ps.ok => ps.out = Last(held)
        /\ ss.ok => ss.out = Head(held)
        /\ (held # <<>> /\ destination # NULL) => ps.ok /\ ss.ok
        /\ (held # <<>> /\ (~obj[h].copy \/ orc.hook)) => p.ok /\ s.ok

\* C15: the deque is a sequence with two ends: deque_push appends, deque_pop removes and
\* deque_back reads the last element, deque_unshift prepends, deque_shift removes and
\* deque_front reads the first; unshift 1..5 then pop until empty, and push 1..5 then shift
\* until empty, both deliver 1,2,3,4,5
C15_TwoEnds ==
    /\ \A src \in BOOLEAN :
        /\ Drain(Fill(NewDeque, <<1, 2, 3, 4, 5>>, FALSE, src), TRUE, src) = <<1, 2, 3, 4, 5>>
        /\ Drain(Fill(NewDeque, <<1, 2, 3, 4, 5>>, TRUE, src), FALSE, src) = <<1, 2, 3, 4, 5>>
    /\ \A h \in Holding("deque") :
        /\ Len(ValuesOf(obj[h], nodes, slots)) = obj[h].size
        /\ TwoEnded(h, ValuesOf(obj[h], nodes, slots))

\* a deque of two different values, room for a third: the two ends deliver different values
C15_Witness ==
    \E h \in Holding("deque") :
        LET held == ValuesOf(obj[h], nodes, slots) IN
        /\ obj[h].size = 2 /\ held[1] # held[2]
        /\ deque_pop(obj[h], nodes, slots, 1, AllOk).out = held[2]
        /\ deque_shift(obj[h], nodes, slots, 1, AllOk).out = held[1]
        /\ deque_pop_src(obj[h], nodes, slots, 1).out = held[2]
        /\ deque_unshift_src(obj[h], nodes, slots, 3, AllOk).ok


RECURSIVE WalkBack(_, _, _)
\* the nodes met from node p along previous, at most fuel of them
WalkBack(heap, p, fuel) ==
    IF p = NULL \/ fuel = 0 THEN <<>> ELSE <<p>> \o WalkBack(heap, heap[p].previous, fuel - 1)

\* sequence s last to first
Backwards(s) == [i \in DOMAIN s |-> s[Len(s) + 1 - i]]

\* the nodes of a list front to back, in a heap of any length
ChainOf(list, heapNodes) == Walk(heapNodes, list.front, Len(heapNodes))

\* the values of a list front to back, in heaps of any length
ChainValues(list, heapNodes, heapSlots) ==
    [i \in DOMAIN ChainOf(list, heapNodes) |->
        ValueOf(heapNodes, heapSlots, ChainOf(list, heapNodes)[i])]

\* size nodes are chained, and the previous links from back retrace the next links from front
WellLinked(list, heapNodes) ==
    /\ Len(ChainOf(list, heapNodes)) = list.size
    /\ WalkBack(heapNodes, list.back, Len(heapNodes)) = Backwards(ChainOf(list, heapNodes))

\* a list, its heaps included: r is [l, nodes, slots]
AListOf(r) == [l |-> r.l, nodes |-> r.nodes, slots |-> r.slots]

RECURSIVE Appended(_, _)
\* list_insert(list, list_size(list), x) for each x of xs in turn
Appended(r, xs) ==
    IF xs = <<>> THEN AListOf(r)
    ELSE Appended(list_insert(r.l, r.nodes, r.slots, r.l.size, Head(xs), AllOk), Tail(xs))

\* the longest list of the scenarios, and the lists of up to so many values in heaps of their own
ScenarioLen == 4
Scenarios(copy) ==
    {Appended([l |-> list_construct(1, ScenarioLen + 1, copy, TRUE).l,
               nodes |-> [i \in 1..(ScenarioLen + 1) |-> FreeNode],
               slots |-> [i \in 1..(ScenarioLen + 1) |-> FreeSlot]], xs) :
        xs \in UNION {[1..n -> Values] : n \in 0..ScenarioLen}}

\* what a successful list_insert(index, value) on the list a leaves: one more node, new, holding
\* value, chained at position index among the old nodes, which keep their order and values
InsertedAt(a, index, value, orc) ==
    LET r == list_insert(a.l, a.nodes, a.slots, index, value, orc)
        before == ChainOf(a.l, a.nodes)
        after == ChainOf(r.l, r.nodes) IN
    r.ok =>
        /\ r.l.size = a.l.size + 1
        /\ WellLinked(r.l, r.nodes)
        /\ after = InsertAt(before, index, after[index + 1])
        /\ after[index + 1] \notin Range(before)
        /\ ChainValues(r.l, r.nodes, r.slots) =
              InsertAt(ChainValues(a.l, a.nodes, a.slots), index, value)
        /\ list_get(r.l, r.nodes, r.slots, index, 1, AllOk) =
              [ok |-> TRUE, err |-> "none", out |-> value]

\* the state before anything is built, in which the caller of family f tries the scenarios
ScenarioState(f) == family = f /\ ~aborted /\ \A h \in Handles : obj[h] = NoObject

\* every insert, at every position, into every list of up to ScenarioLen values
InsertScenarios ==
    ScenarioState("list") => \A copy \in BOOLEAN : \A a \in Scenarios(copy) :
        \A index \in 0..a.l.size, value \in Values : InsertedAt(a, index, value, AllOk)

\* C16: a successful list_insert(index, x) with 0 <= index <= size makes x the element at
\* position index (0 prepends, size appends, otherwise x is spliced in before the element
\* formerly at index), keeps the other elements in order and adds one to size; list_get(index)
\* then yields x
C16_ListInsert ==
    /\ \A h \in Holding("list") : \A index \in 0..obj[h].size, value \in Values,
                                     orc \in NodeOracles :
        InsertedAt([l |-> obj[h], nodes |-> nodes, slots |-> slots], index, value, orc)
    /\ InsertScenarios

\* a list of one element with room: a value put at index 0 comes before the element, and a
\* value put at index 1 comes after it
C16_Witness ==
    \E h \in Holding("list") : \E value \in Values :
        LET old == ValuesOf(obj[h], nodes, slots)
            first == list_insert(obj[h], nodes, slots, 0, value, AllOk)
            last == list_insert(obj[h], nodes, slots, 1, value, AllOk) IN
        /\ obj[h].size = 1 /\ old[1] # value
        /\ first.ok /\ ValuesOf(first.l, first.nodes, first.slots) = <<value, old[1]>>
        /\ last.ok /\ ValuesOf(last.l, last.nodes, last.slots) = <<old[1], value>>

\* what a successful list_remove(index, destination) on the list a leaves: the node at position
\* index and its value released, the value delivered, the other nodes chained in their order
RemovedAt(a, index, destination, orc) ==
    LET r == list_remove(a.l, a.nodes, a.slots, index, destination, orc)
        before == ChainOf(a.l, a.nodes)
        values == ChainValues(a.l, a.nodes, a.slots) IN
    /\ (index < a.l.size /\ (destination = NULL \/ ~a.l.copy \/ orc.hook)) => r.ok
    /\ r.ok =>
        /\ index < a.l.size
        /\ r.l.size = a.l.size - 1
        /\ WellLinked(r.l, r.nodes)
        /\ ChainOf(r.l, r.nodes) = RemoveAt(before, index)
        /\ ChainValues(r.l, r.nodes, r.slots) = RemoveAt(values, index)
        /\ ~r.nodes[before[index + 1]].live
        /\ ~r.slots[a.nodes[before[index + 1]].value].live
        /\ destination # NULL => r.out = values[index + 1]
        /\ a.l.size = 1 => r.l.front = NULL /\ r.l.back = NULL

\* every remove, at every position, from every list of up to ScenarioLen values
RemoveScenarios ==
    ScenarioState("list") => \A copy \in BOOLEAN : \A a \in Scenarios(copy) :
        \A index \in 0..a.l.size, destination \in Destinations :
            RemovedAt(a, index, destination, AllOk)

\* C17: a successful list_remove(index, destination) with index < size removes exactly the
\* element at position index, whichever end the lookup walks from, delivers it to a non-NULL
\* destination, keeps the other elements in order and takes one from size, be the node the
\* only one, the front, the back or an interior one
C17_ListRemove ==
    /\ \A h \in Holding("list") : \A index \in Indexes(obj[h].size),
                                     destination \in Destinations, orc \in GetOracles :
        RemovedAt([l |-> obj[h], nodes |-> nodes, slots |-> slots], index, destination, orc)
    /\ RemoveScenarios

\* a list of two different elements: removing at 0 delivers the first and leaves the second,
\* removing at 1 delivers the second and leaves the first
C17_Witness ==
    \E h \in Holding("list") :
        LET old == ValuesOf(obj[h], nodes, slots)
            first == list_remove(obj[h], nodes, slots, 0, 1, AllOk)
            last == list_remove(obj[h], nodes, slots, 1, 1, AllOk) IN
        /\ obj[h].size = 2 /\ old[1] # old[2]
        /\ first.ok /\ first.out = old[1]
        /\ ValuesOf(first.l, first.nodes, first.slots) = <<old[2]>>
        /\ last.ok /\ last.out = old[2]
        /\ ValuesOf(last.l, last.nodes, last.slots) = <<old[1]>>

\* the elements of s that compare unequal to key, in their order
Unequal(s, key, values) == SelectSeq(s, LAMBDA n : compare(values[n], key) # 0)

\* the places of s
Places(s) == [i \in DOMAIN s |-> i]

\* what list_removeall(key, compare) on the list a leaves: the nodes whose value compares
\* equal to key released, the others chained in their order with their values
RemovedAll(a, key) ==
    LET r == list_removeall(a.l, a.nodes, a.slots, key)
        before == ChainOf(a.l, a.nodes)
        values == ChainValues(a.l, a.nodes, a.slots)
        kept == Unequal(Places(before), key, values) IN
    /\ r.ok
    /\ r.l.size = a.l.size - Cardinality({i \in DOMAIN values : compare(values[i], key) = 0})
    /\ WellLinked(r.l, r.nodes)
    /\ ChainOf(r.l, r.nodes) = [i \in DOMAIN kept |-> before[kept[i]]]
    /\ ChainValues(r.l, r.nodes, r.slots) = [i \in DOMAIN kept |-> values[kept[i]]]
    /\ \A i \in DOMAIN before :
          compare(values[i], key) = 0 =>
              ~r.nodes[before[i]].live /\ ~r.slots[a.nodes[before[i]].value].live
    /\ r.l.size = 0 => r.l.front = NULL /\ r.l.back = NULL

\* every key removed from every list of up to ScenarioLen values
RemoveallScenarios ==
    ScenarioState("list") => \A copy \in BOOLEAN : \A a \in Scenarios(copy) : \A key \in Values : RemovedAll(a, key)

\* C18: list_removeall(key, compare) removes every element e with compare(e, key) = 0 and no
\* other, keeps the others in order and takes the number of matches from size, the matches
\* being adjacent, at the front, at the back or all the elements
C18_ListRemoveall ==
    /\ \A h \in Holding("list") : \A key \in Values :
        RemovedAll([l |-> obj[h], nodes |-> nodes, slots |-> slots], key)
    /\ RemoveallScenarios

\* a list whose first element alone compares equal to a key and a list of two different
\* elements that both do: the first list is left its second element, the second list none
C18_Witness ==
    /\ \E h \in Holding("list") : \E key \in Values :
        LET old == ValuesOf(obj[h], nodes, slots)
            r == list_removeall(obj[h], nodes, slots, key) IN
        /\ obj[h].size = 2 /\ compare(old[1], key) = 0 /\ compare(old[2], key) # 0
        /\ ValuesOf(r.l, r.nodes, r.slots) = <<old[2]>>
    /\ \E h \in Holding("list") : \E key \in Values :
        LET old == ValuesOf(obj[h], nodes, slots)
            r == list_removeall(obj[h], nodes, slots, key) IN
        /\ obj[h].size = 2 /\ old[1] # old[2]
        /\ compare(old[1], key) = 0 /\ compare(old[2], key) = 0
        /\ r.l.size = 0 /\ r.l.front = NULL

RECURSIVE PushedBack(_, _)
\* vector_insert(vector, vector_size(vector), x) for each x of xs in turn; r is [v, slots]
PushedBack(r, xs) ==
    IF xs = <<>> THEN [v |-> r.v, slots |-> r.slots]
    ELSE PushedBack(vector_insert(r.v, r.slots, r.v.size, Head(xs), AllOk), Tail(xs))

\* the vectors of up to ScenarioLen values, in heaps of their own
VectorScenarios(clone) ==
    {PushedBack([v |-> vector_construct(1, ScenarioLen + 1, 0, IncrementMin, clone, TRUE,
                                        TRUE).v,
                 slots |-> [i \in 1..(ScenarioLen + 1) |-> FreeSlot]], xs) :
        xs \in UNION {[1..n -> Values] : n \in 0..ScenarioLen}}

\* what vector_removeall(key, compare) on the vector a leaves: the slots whose value compares
\* equal to key released, the others in their order with their values
RemovedAllOf(a, key) ==
    LET r == vector_removeall(a.v, a.slots, key)
        values == Elements(a.v, a.slots)
        kept == Unequal(Places(values), key, values) IN
    /\ r.ok
    /\ r.v.size = a.v.size - Cardinality({i \in DOMAIN values : compare(values[i], key) = 0})
    /\ Len(r.v.data) = r.v.size
    /\ r.v.data = [i \in DOMAIN kept |-> a.v.data[kept[i]]]
    /\ Elements(r.v, r.slots) = [i \in DOMAIN kept |-> values[kept[i]]]
    /\ \A i \in DOMAIN values :
          compare(values[i], key) = 0 => ~r.slots[a.v.data[i]].live

\* every key removed from every vector of up to ScenarioLen values
VectorRemoveallScenarios ==
    ScenarioState("vector") => \A clone \in BOOLEAN : \A a \in VectorScenarios(clone) : \A key \in Values :
        RemovedAllOf(a, key)

\* C19: vector_removeall(key, compare) removes every element e with compare(e, key) = 0 and no
\* other, keeps the others in order and takes the number of matches from size, the matches
\* being adjacent, at the front, at the back or all the elements
C19_VectorRemoveall ==
    /\ \A h \in Holding("vector") : \A key \in Values :
        RemovedAllOf([v |-> obj[h], slots |-> slots], key)
    /\ VectorRemoveallScenarios

\* a vector whose first element alone compares equal to a key and a vector of two different
\* elements that both do: the first vector is left its second element, the second vector none
C19_Witness ==
    /\ \E h \in Holding("vector") : \E key \in Values :
        LET old == Elements(obj[h], slots)
            r == vector_removeall(obj[h], slots, key) IN
        /\ obj[h].size = 2 /\ compare(old[1], key) = 0 /\ compare(old[2], key) # 0
        /\ Elements(r.v, r.slots) = <<old[2]>>
    /\ \E h \in Holding("vector") : \E key \in Values :
        LET old == Elements(obj[h], slots)
            r == vector_removeall(obj[h], slots, key) IN
        /\ obj[h].size = 2 /\ old[1] # old[2]
        /\ compare(old[1], key) = 0 /\ compare(old[2], key) = 0
        /\ r.v.size = 0

\* t holds the pointers of s, each as often
SamePointers(s, t) ==
    Len(s) = Len(t) /\ \A x \in Range(s) \cup Range(t) : Count(s, x) = Count(t, x)

\* compare(p, n) <= 0 for every adjacent pair (p, n) of s, >= 0 when reverse
InOrder(s, reverse, cmp) ==
    \A i \in 1..(Len(s) - 1) :
        IF reverse THEN Compared(cmp, s[i], s[i + 1]) >= 0
        ELSE Compared(cmp, s[i], s[i + 1]) <= 0

\* what every outcome of vector_sort(reverse, compare) on the vector a is to be
SortedOf(a, reverse, cmp) ==
    \A r \in vector_sort(a.v, a.slots, reverse, cmp) :
        /\ r.ok
        /\ r.v.size = a.v.size /\ r.v.capacity = a.v.capacity
        /\ r.slots = a.slots /\ SamePointers(a.v.data, r.v.data)
        /\ InOrder(Elements(r.v, r.slots), reverse, cmp)

\* [4,1,5,3,2], built as 2,3,5,1,4 each inserted at index 0
Unsorted ==
    InsertEachAtFront(vector_construct(1, 5, 0, IncrementMin, FALSE, TRUE, TRUE).v,
                      [i \in 1..5 |-> FreeSlot], <<2, 3, 5, 1, 4>>)

\* [4,1,5,3,2] sorted ascending by the difference of the ints is [1,2,3,4,5]
SortExample ==
    /\ Elements(Unsorted.v, Unsorted.slots) = <<4, 1, 5, 3, 2>>
    /\ {Elements(r.v, r.slots) : r \in vector_sort(Unsorted.v, Unsorted.slots, FALSE, "int")}
          = {<<1, 2, 3, 4, 5>>}

\* C20: after vector_sort(reverse, compare) the vector holds the same multiset of elements,
\* size and capacity are unchanged and every adjacent pair (p, n) has compare(p, n) <= 0 when
\* reverse is false and compare(p, n) >= 0 when reverse is true; [4,1,5,3,2] sorted ascending
\* is [1,2,3,4,5]
C20_VectorSort ==
    /\ \A h \in Holding("vector") : \A reverse \in BOOLEAN, cmp \in Comparators :
        SortedOf([v |-> obj[h], slots |-> slots], reverse, cmp)
    /\ SortExample

\* the indexes of the elements of a vector or a list that compare equal to key
Matching(o, key) ==
    {i \in 0..(o.size - 1) : compare(Contents(o, nodes, slots)[i + 1], key) = 0}
\* vector_search or list_search, and vector_contains or list_contains, of the family at hand
Searched(o, key) ==
    IF family = "vector" THEN vector_search(o, slots, key) ELSE list_search(o, nodes, slots, key)
Contained(o, key) ==
    IF family = "vector" THEN vector_contains(o, slots, key)
    ELSE list_contains(o, nodes, slots, key)

\* C21: vector_search and list_search return the smallest index whose element compares equal
\* to the key, and SIZE_MAX when there is none; vector_contains and list_contains are true
\* exactly when there is one; no valid index is SIZE_MAX
C21_SearchFirst ==
    \A h \in Handles : (family \in {"vector", "list"} /\ IsObject(obj[h])) =>
        /\ \A i \in 0..(obj[h].size - 1) : i # SIZE_MAX
        /\ \A key \in Values :
            LET m == Matching(obj[h], key)
                i == Searched(obj[h], key).index
            IN /\ m = {} => i = SIZE_MAX
               /\ m # {} => i \in m /\ \A j \in m : i <= j
               /\ Contained(obj[h], key).found <=> m # {}

\* a container of two elements that both compare equal to the key: the search answers 0, and
\* another key matches neither of them
C21_Witness ==
    \E h \in Handles, key \in Values :
        /\ family \in {"vector", "list"} /\ IsObject(obj[h]) /\ obj[h].size = 2
        /\ Matching(obj[h], key) = {0, 1}
        /\ Searched(obj[h], key).index = 0
        /\ Contained(obj[h], key).found
        /\ \E other \in Values : Matching(obj[h], other) = {} /\ ~Contained(obj[h], other).found

\* the sequence s from its last element to its first
Backward(s) == [i \in DOMAIN s |-> s[Len(s) + 1 - i]]
\* the heap with room for two more containers of MaxLimit elements
MoreSlots(heapSlots) == heapSlots \o [i \in 1..(2 * MaxLimit) |-> FreeSlot]
MoreNodes(heapNodes) == heapNodes \o [i \in 1..(2 * MaxLimit) |-> FreeNode]
\* the reversing call of the family on the container o, nothing failing
ReverseOf(o, heapNodes, heapSlots) ==
    LET V(r) == Outcome(r.v, heapNodes, r.slots, r.err = "none", r.err)
        S(r) == Outcome(r.s, heapNodes, r.slots, r.err = "none", r.err)
        L(r) == Outcome(r.l, r.nodes, r.slots, r.err = "none", r.err)
        Q(r) == Outcome(r.q, r.nodes, r.slots, r.err = "none", r.err)
    IN CASE family = "vector" -> V(vector_reverse(o, heapSlots, NothingFails))
         [] family = "stack" -> S(stack_reverse(o, heapSlots, NothingFails))
         [] family = "list" -> L(list_reverse(o, heapNodes, heapSlots, NothingFails))
         [] family = "queue" -> Q(queue_reverse(o, heapNodes, heapSlots, NothingFails))
\* the reversed container r of the container o: new, apart from o, holding the sequence of o
\* backwards, with o and what it holds as before
ReversedOf(o, heapNodes, heapSlots, r) ==
    /\ r.ok /\ IsObject(r.c)
    /\ Contents(r.c, r.nodes, r.slots) = Backward(Contents(o, heapNodes, heapSlots))
    /\ Contents(o, r.nodes, r.slots) = Contents(o, heapNodes, heapSlots)
    /\ Apart(r.c, o, r.nodes, r.slots)
    /\ \A s \in SlotsOf(r.c, r.nodes) : ~heapSlots[s].live

\* C22: list_reverse, vector_reverse, stack_reverse and queue_reverse return a new container
\* with the sequence of the source reversed and leave the source as it was; reversing the
\* result gives the sequence of the source again
C22_ReverseTwice ==
    \A h \in Handles : (family \in {"list", "vector", "stack", "queue"} /\ IsObject(obj[h])) =>
        LET once == ReverseOf(obj[h], MoreNodes(nodes), MoreSlots(slots))
            twice == ReverseOf(once.c, once.nodes, once.slots)
        IN /\ ReversedOf(obj[h], MoreNodes(nodes), MoreSlots(slots), once)
           /\ ReversedOf(once.c, once.nodes, once.slots, twice)
           /\ Contents(twice.c, twice.nodes, twice.slots) = Contents(obj[h], nodes, slots)
           /\ Contents(obj[h], twice.nodes, twice.slots) = Contents(obj[h], nodes, slots)

\* a container of two different elements and, made by the reversing call, the container
\* that holds them in the other order
C22_Witness ==
    /\ family \in {"list", "vector", "stack", "queue"}
    /\ IsObject(obj[1]) /\ IsObject(obj[2]) /\ obj[1].size = 2
    /\ Contents(obj[1], nodes, slots)[1] # Contents(obj[1], nodes, slots)[2]
    /\ Contents(obj[2], nodes, slots) = Backward(Contents(obj[1], nodes, slots))
    /\ ReverseOf(obj[1], MoreNodes(nodes), MoreSlots(slots)).ok

\* the removing calls of the family on the container of handle h without a destination, each
\* with the index of the element it is to remove
RemovesNowhere(h, orc) ==
    LET At(index, c, heapNodes, r) ==
            [index |-> index, c |-> c, nodes |-> heapNodes, slots |-> r.slots, ok |-> r.ok,
             err |-> r.err, out |-> r.out]
        V(index, r) == At(index, r.v, nodes, r)
        S(index, r) == At(index, r.s, nodes, r)
        L(index, r) == At(index, r.l, r.nodes, r)
        Q(index, r) == At(index, r.q, r.nodes, r)
        D(index, r) == At(index, r.d, r.nodes, r)
        last == obj[h].size - 1
    IN CASE family = "vector" ->
                {V(index, vector_remove(obj[h], slots, index, NULL, orc)) : index \in 0..last}
         [] family = "list" ->
                {L(index, list_remove(obj[h], nodes, slots, index, NULL, orc)) :
                    index \in 0..last}
         [] family = "stack" -> {S(last, stack_pop(obj[h], slots, NULL, orc))}
         [] family = "queue" -> {Q(0, queue_dequeue(obj[h], nodes, slots, NULL, orc))}
         [] family = "deque" -> {D(last, deque_pop(obj[h], nodes, slots, NULL, orc)),
                                 D(0, deque_shift(obj[h], nodes, slots, NULL, orc))}
\* the sequence s without its element at index (from 0)
Without(s, index) == SubSeq(s, 1, index) \o SubSeq(s, index + 2, Len(s))

ClearOf(o, heapNodes, heapSlots) ==
    LET V(r) == Outcome(r.v, heapNodes, r.slots, r.ok, r.err)
        L(r) == Outcome(r.l, r.nodes, r.slots, r.ok, r.err)
    IN IF family = "vector" THEN V(vector_clear(o, heapSlots))
       ELSE L(list_clear(o, heapNodes, heapSlots))
\* how many slots and nodes of the heap are allocated
Allocated(heapNodes, heapSlots) ==
    Cardinality({s \in DOMAIN heapSlots : heapSlots[s].live})
        + Cardinality({n \in DOMAIN heapNodes : heapNodes[n] # FreeNode})

\* C24: clear on a vector or a list, and clear once more, return true both times; after each
\* the container is empty with size 0, and the second call changes nothing
C24_ClearTwice ==
    \A h \in Handles : (family \in {"vector", "list"} /\ IsObject(obj[h])) =>
        LET once == ClearOf(obj[h], nodes, slots)
            twice == ClearOf(once.c, once.nodes, once.slots)
        IN /\ once.ok /\ once.c.size = 0 /\ Contents(once.c, once.nodes, once.slots) = <<>>
           /\ \A s \in SlotsOf(obj[h], nodes) : ~once.slots[s].live
           /\ Allocated(once.nodes, once.slots) = Allocated(nodes, slots) - obj[h].size
                  - (IF family = "list" THEN obj[h].size ELSE 0)
           /\ twice.ok /\ twice.c.size = 0
           /\ Contents(twice.c, twice.nodes, twice.slots) = <<>>
           /\ twice = once

\* a vector or a list of two elements, whose slots (and nodes) clear releases
C24_Witness ==
    \E h \in Handles :
        /\ family \in {"vector", "list"} /\ IsObject(obj[h]) /\ obj[h].size = 2
        /\ ClearOf(obj[h], nodes, slots).c.size = 0
        /\ Allocated(ClearOf(obj[h], nodes, slots).nodes, ClearOf(obj[h], nodes, slots).slots)
               < Allocated(nodes, slots)

\* C25: a vector_trim that succeeds leaves capacity = size (0 and no buffer when the vector is
\* empty) and size and the elements as they were; when the reallocation fails it returns
\* false with ENOMEM and capacity, size and elements are as they were
C25_Trim ==
    \A h \in Handles : (family = "vector" /\ IsObject(obj[h])) =>
        \A reallocOk \in BOOLEAN :
            LET r == vector_trim(obj[h], reallocOk) IN
            /\ r.ok => /\ r.err = "none"
                       /\ r.v.capacity = obj[h].size
                       /\ obj[h].size = 0 => r.v.capacity = 0 /\ ~r.v.buf
                       /\ r.v = [obj[h] EXCEPT !.capacity = obj[h].size, !.buf = r.v.buf]
            /\ ~r.ok => r.err = "ENOMEM" /\ r.v = obj[h] /\ ~reallocOk /\ obj[h].size > 0
            /\ r.v.size = obj[h].size /\ r.v.data = obj[h].data
            /\ Elements(r.v, slots) = Elements(obj[h], slots)
            /\ (reallocOk \/ obj[h].size = 0) => r.ok

\* a vector of one element with room for two, which trim cuts to one and, when the
\* reallocation fails, leaves at two
C25_Witness ==
    \E h \in Handles :
        /\ family = "vector" /\ IsObject(obj[h]) /\ obj[h].size = 1 /\ obj[h].capacity = 2
        /\ vector_trim(obj[h], TRUE).v.capacity = 1
        /\ ~vector_trim(obj[h], FALSE).ok

\* a step of one of the reading calls on the container of handle h
Reads(h) ==
    \/ VectorGet(h) \/ VectorSearch(h) \/ VectorContains(h)
    \/ ListGet(h) \/ ListSearch(h) \/ ListContains(h)
    \/ StackPeek(h) \/ QueuePeek(h) \/ DequeFront(h) \/ DequeBack(h)
\* every container has the size, the capacity and the sequence of elements it had
Kept ==
    \A k \in Handles :
        \/ obj'[k] = obj[k] /\ slots' = slots /\ nodes' = nodes
        \/ /\ IsObject(obj[k]) /\ IsObject(obj'[k])
           /\ obj'[k].size = obj[k].size
           /\ IsArray => obj'[k].capacity = obj[k].capacity
           /\ SlotSeq(obj'[k], nodes') = SlotSeq(obj[k], nodes)
           /\ Contents(obj'[k], nodes', slots') = Contents(obj[k], nodes, slots)

\* C26: the reading calls (vector_get, list_get, stack_peek, queue_peek, deque_front,
\* deque_back, the searches and contains) leave size, capacity and the sequence of elements
\* of the container as they were, whether they return true or false
C26_ReadsKeep == [][Kept \/ \A h \in Handles : ~Reads(h)]_vars

\* a container of two different elements with a clone hook: reading its first element
\* succeeds, and fails when the hook fails
C26_Witness ==
    \E h \in Handles :
        /\ IsObject(obj[h]) /\ obj[h].size = 2
        /\ Contents(obj[h], nodes, slots)[1] # Contents(obj[h], nodes, slots)[2]
        /\ family = "vector"
        /\ obj[h].clone
        /\ vector_get(obj[h], slots, 0, 1, AllOk).out = Contents(obj[h], nodes, slots)[1]
        /\ ~vector_get(obj[h], slots, 0, 1, [AllOk EXCEPT !.hook = FALSE]).ok
        /\ ENABLED VectorGet(h)

\* C30: stack_reserve(n) with n <= limit on a stack whose constructor accepted an increment of
\* 1.5 or more returns, whatever the capacity it starts from (0 included): every iteration of
\* the loop raises the candidate capacity or sets it to the limit
C30_ReserveReturns == Reserving ~> ~Reserving

\* the arguments a caller hands to a constructor of the vector or the stack
ConstructArguments ==
    [width : Widths, limit : Limits \cup StackLimits, capacity : Capacities,
     increment : Increments, mallocOk : BOOLEAN, dataOk : BOOLEAN]
\* the constructor refuses the arguments a exactly when one of the five conditions holds, with
\* least the smallest growth factor it takes; otherwise, memory permitting, it returns an empty
\* container c of the capacity asked for
ConstructsFrom(a, c, err, least) ==
    /\ err = "EINVAL" <=>
           \/ a.width = 0 \/ a.limit = 0 \/ a.limit > VECTOR_LIMIT \/ a.capacity > a.limit
           \/ a.increment < least
    /\ err = "ENOMEM" => ~a.mallocOk \/ (a.capacity > 0 /\ ~a.dataOk)
    /\ err # "none" <=> c = NoObject
    /\ err = "none" => c.size = 0 /\ c.capacity = a.capacity /\ c.limit = a.limit
    /\ (a.mallocOk /\ a.dataOk) => err \in {"none", "EINVAL"}
VectorConstructed(a) ==
    vector_construct(a.width, a.limit, a.capacity, a.increment, FALSE, a.mallocOk, a.dataOk)
StackConstructed(a) ==
    stack_construct(a.width, a.limit, a.capacity, a.increment, FALSE, a.mallocOk, a.dataOk)
StackConstructedLow(a) ==
    stack_construct_low(a.width, a.limit, a.capacity, a.increment, FALSE, a.mallocOk, a.dataOk)

\* C27 as stated: called where no container stands yet, vector_construct and stack_construct
\* fail with EINVAL exactly when width is 0, limit is 0, limit is above VECTOR_LIMIT, capacity
\* is above limit or the growth factor is below 1.5; otherwise, memory permitting, the
\* container has size 0 and the capacity asked for
C27_ConstructFrom15 ==
    obj[1] = NoObject =>
        \A a \in ConstructArguments :
            /\ ConstructsFrom(a, VectorConstructed(a).v, VectorConstructed(a).err, IncrementLow)
            /\ ConstructsFrom(a, StackConstructedLow(a).s, StackConstructedLow(a).err,
                              IncrementLow)

\* C27: vector_construct (and the stack_construct with the parameter growth) fail with EINVAL
\* exactly when width is 0, limit is 0, limit is above VECTOR_LIMIT, capacity is above limit or
\* the growth factor is below 2; the stack_construct with the parameter increment takes growth
\* factors from 1.5; otherwise, memory permitting, the container has size 0 and the capacity
\* asked for, and every vector there is has a growth factor of 2 or more
C27_Construct ==
    /\ \A a \in ConstructArguments :
        /\ ConstructsFrom(a, VectorConstructed(a).v, VectorConstructed(a).err, IncrementMin)
        /\ ConstructsFrom(a, StackConstructed(a).s, StackConstructed(a).err, IncrementMin)
        /\ ConstructsFrom(a, StackConstructedLow(a).s, StackConstructedLow(a).err, IncrementLow)
    /\ \A h \in Handles : (family = "vector" /\ IsObject(obj[h])) =>
        /\ obj[h].increment >= IncrementMin /\ obj[h].width > 0
        /\ obj[h].limit > 0 /\ obj[h].limit <= VECTOR_LIMIT

\* a vector as vector_construct returns it, empty with the capacity 2 asked for, where the
\* same call with a growth factor of 1.5 is refused
C27_Witness ==
    /\ family = "vector" /\ IsObject(obj[1]) /\ obj[2] = NoObject
    /\ obj[1] = vector_construct(1, 2, 2, IncrementMin, obj[1].clone, TRUE, TRUE).v
    /\ obj[1].size = 0 /\ obj[1].capacity = 2
    /\ vector_construct(1, 2, 2, IncrementLow, obj[1].clone, TRUE, TRUE).err = "EINVAL"
    /\ stack_construct_low(1, 2, 2, IncrementLow, obj[1].clone, TRUE, TRUE).err = "none"

\* C28: after bitarray_fill on a bitarray of n >= 1 bits, n a multiple of 8 or not,
\* bitarray_test(i) is true for every i < n and bitarray_count returns n
C28_FillSetsAll ==
    \A h \in Handles : (family = "bitarray" /\ IsObject(obj[h])) =>
        LET filled == bitarray_fill(obj[h]) IN
        /\ \A i \in 0..(obj[h].size - 1) : bitarray_test(filled, i).set
        /\ bitarray_count(filled) = obj[h].size

\* bit i of the bitarray b, 0 past its size
BitAt(b, i) == IF i < b.size THEN (IF bitarray_test(b, i).set THEN 1 ELSE 0) ELSE 0
\* the bitarray r has size bits, bit i being what op makes of bit i of a and of b, the
\* shorter of the two taken as 0 past its size
Bitwise(r, size, a, b, op) ==
    /\ r.size = size /\ r.buckets = ((size - 1) \div _BYTE) + 1 /\ Len(r.values) = r.buckets
    /\ \A i \in 0..(size - 1) :
        BitAt(r, i) = CASE op = "and" -> BitAt(a, i) * BitAt(b, i)
                        [] op = "or" -> IF BitAt(a, i) + BitAt(b, i) > 0 THEN 1 ELSE 0
                        [] op = "xor" -> (BitAt(a, i) + BitAt(b, i)) % 2
Smaller(m, n) == IF m <= n THEN m ELSE n
Bigger(m, n) == IF m <= n THEN n ELSE m

\* C29: bitarray_and, bitarray_or and bitarray_xor of a bitarray of m bits and one of n bits,
\* in either order, do not fail because m and n differ (only for want of memory): or and xor
\* return max(m, n) bits, and returns min(m, n) bits, bit i being the operation on the bits i
\* of the operands with the shorter one taken as 0 past its size
C29_BinaryZeroExtends ==
    \A h \in Handles, k \in Handles :
        (family = "bitarray" /\ IsObject(obj[h]) /\ IsObject(obj[k])) =>
            LET a == obj[h]
                b == obj[k]
                and == bitarray_and(a, b, TRUE, TRUE)
                or == bitarray_or(a, b, TRUE, TRUE)
                xor == bitarray_xor(a, b, TRUE, TRUE)
            IN /\ and.err = "none" /\ or.err = "none" /\ xor.err = "none"
               /\ Bitwise(and.b, Smaller(a.size, b.size), a, b, "and")
               /\ Bitwise(or.b, Bigger(a.size, b.size), a, b, "or")
               /\ Bitwise(xor.b, Bigger(a.size, b.size), a, b, "xor")
               /\ \A mallocOk \in BOOLEAN, callocOk \in BOOLEAN :
                    bitarray_or(a, b, mallocOk, callocOk).err \in {"none", "ENOMEM"}

\* a bitarray of 9 bits with its last bit set and one of 3 bits with bits 0 and 2 set: or
\* and xor keep bit 8, and has 3 bits
C29_Witness ==
    /\ family = "bitarray" /\ IsObject(obj[1]) /\ IsObject(obj[2])
    /\ obj[1].size = 9 /\ obj[2].size = 3
    /\ bitarray_test(obj[1], 8).set /\ bitarray_test(obj[1], 0).set
    /\ bitarray_test(obj[2], 0).set /\ bitarray_test(obj[2], 2).set
    /\ bitarray_test(bitarray_or(obj[2], obj[1], TRUE, TRUE).b, 8).set
    /\ ~bitarray_test(bitarray_xor(obj[2], obj[1], TRUE, TRUE).b, 0).set
    /\ bitarray_and(obj[1], obj[2], TRUE, TRUE).b.size = 3

\* the growth factor of the vector is a whole number
WholeFactor(v) == v.increment % 2 = 0
\* max(1, old capacity) multiplied k times by the factor and clamped to the limit
Candidate(v, k) ==
    LET start == IF v.capacity = 0 THEN 1 ELSE v.capacity
        product == start * ((v.increment \div 2) ^ k)
    IN IF product > v.limit THEN v.limit ELSE product
\* the candidate for the least k that makes it reach n
Reserved(v, n) ==
    Candidate(v, CHOOSE k \in 0..n : Candidate(v, k) >= n /\ \A j \in 0..(k - 1) : Candidate(v, j) < n)

\* C31: vector_reserve(n) with capacity < n <= limit and a whole growth factor g takes the
\* candidates max(1, old), then each time the last one times g clamped to the limit, stops at
\* the first that is >= n and, realloc succeeding, makes it the capacity; reserve(5) on
\* capacity 0 with g = 2 and limit >= 8 steps 1, 2, 4, 8
C31_ReserveGrows ==
    /\ (Growing /\ WholeFactor(obj[1])) =>
        /\ \A i \in 1..Len(obj[2].steps) : obj[2].steps[i] = Candidate(obj[1], i - 1)
        /\ \A i \in 1..(Len(obj[2].steps) - 1) : obj[2].steps[i] < obj[2].size
        /\ obj[2].capacity = obj[2].steps[Len(obj[2].steps)]
        /\ obj[2].capacity >= obj[2].size =>
            /\ obj[2].capacity = Reserved(obj[1], obj[2].size)
            /\ vector_reserve_leave(obj[1], obj[2].capacity, TRUE).v.capacity =
                   Reserved(obj[1], obj[2].size)
            /\ (obj[1].capacity = 0 /\ obj[1].increment = 4 /\ obj[1].limit >= 8
                    /\ obj[2].size = 5) => obj[2].steps = <<1, 2, 4, 8>>
    /\ (family = "grow" /\ ~Growing /\ IsObject(obj[1]) /\ WholeFactor(obj[1])) =>
        \A n \in (obj[1].capacity + 1)..obj[1].limit :
            LET r == vector_reserve(obj[1], n, TRUE)
            IN r.ok /\ r.v.capacity = Reserved(obj[1], n)

\* reserve(5) on capacity 0 with factor 2 and limit 8 has left its loop with 1, 2, 4, 8
C31_Witness ==
    /\ Growing /\ obj[1].capacity = 0 /\ obj[1].increment = 4 /\ obj[1].limit = 8
    /\ obj[2].size = 5 /\ obj[2].capacity = 8 /\ obj[2].steps = <<1, 2, 4, 8>>

\* the container c (a list or a deque) is a sound doubly linked chain in the heap: front,
\* back and size are empty together, the ends have nothing beyond them, each previous link
\* mirrors the next link into its node, and the walk from front meets size different live
\* nodes, the last being back
Linked(c, heapNodes) ==
    LET chain == Walk(heapNodes, c.front, Len(heapNodes) + 1) IN
    /\ (c.front = NULL) = (c.back = NULL)
    /\ (c.front = NULL) = (c.size = 0)
    /\ c.front # NULL => heapNodes[c.front].previous = NULL /\ heapNodes[c.back].next = NULL
    /\ \A a \in Range(chain) :
        /\ heapNodes[a].live
        /\ heapNodes[a].next # NULL => heapNodes[heapNodes[a].next].previous = a
    /\ Len(chain) = c.size /\ Cardinality(Range(chain)) = c.size
    /\ c.size > 0 => chain[Len(chain)] = c.back

\* deque_push(x) for each x of xs in turn
RECURSIVE Pushed(_, _)
Pushed(r, xs) ==
    IF xs = <<>> THEN [d |-> r.d, nodes |-> r.nodes, slots |-> r.slots]
    ELSE Pushed(deque_push(r.d, r.nodes, r.slots, Head(xs), AllOk), Tail(xs))

\* the deques of up to ScenarioLen values in heaps of their own
DequeScenarios(copy) ==
    {Pushed([d |-> deque_construct(1, ScenarioLen + 1, copy, TRUE).d,
             nodes |-> [i \in 1..(ScenarioLen + 1) |-> FreeNode],
             slots |-> [i \in 1..(ScenarioLen + 1) |-> FreeSlot]], xs) :
        xs \in UNION {[1..n -> Values] : n \in 0..ScenarioLen}}

\* every call of the list on the list a, with every argument and every failure, leaves a
\* sound chain
ListCallsLink(a) ==
    /\ Linked(a.l, a.nodes)
    /\ \A index \in Indexes(a.l.size), value \in Pointers, orc \in NodeOracles :
        /\ Linked(list_insert(a.l, a.nodes, a.slots, index, value, orc).l,
                  list_insert(a.l, a.nodes, a.slots, index, value, orc).nodes)
        /\ Linked(list_set(a.l, a.nodes, a.slots, index, value, orc).l,
                  list_set(a.l, a.nodes, a.slots, index, value, orc).nodes)
    /\ \A index \in Indexes(a.l.size), destination \in Destinations, orc \in GetOracles :
        Linked(list_remove(a.l, a.nodes, a.slots, index, destination, orc).l,
               list_remove(a.l, a.nodes, a.slots, index, destination, orc).nodes)
    /\ \A key \in Pointers :
        Linked(list_removeall(a.l, a.nodes, a.slots, key).l,
               list_removeall(a.l, a.nodes, a.slots, key).nodes)
    /\ Linked(list_clear(a.l, a.nodes, a.slots).l, list_clear(a.l, a.nodes, a.slots).nodes)

\* every call of the deque on the deque a, with every argument and every failure, leaves a
\* sound chain
DequeCallsLink(a) ==
    /\ Linked(a.d, a.nodes)
    /\ \A value \in Pointers, orc \in NodeOracles :
        /\ Linked(deque_push(a.d, a.nodes, a.slots, value, orc).d,
                  deque_push(a.d, a.nodes, a.slots, value, orc).nodes)
        /\ Linked(deque_unshift(a.d, a.nodes, a.slots, value, orc).d,
                  deque_unshift(a.d, a.nodes, a.slots, value, orc).nodes)
    /\ \A destination \in Destinations, orc \in GetOracles :
        /\ Linked(deque_pop(a.d, a.nodes, a.slots, destination, orc).d,
                  deque_pop(a.d, a.nodes, a.slots, destination, orc).nodes)
        /\ Linked(deque_shift(a.d, a.nodes, a.slots, destination, orc).d,
                  deque_shift(a.d, a.nodes, a.slots, destination, orc).nodes)
    /\ Linked(deque_clear(a.d, a.nodes, a.slots).d, deque_clear(a.d, a.nodes, a.slots).nodes)

\* the lists and the deques of up to ScenarioLen values: interior nodes included
LinkScenarios ==
    \A copy \in BOOLEAN :
        /\ ScenarioState("list") => \A a \in Scenarios(copy) : ListCallsLink(a)
        /\ ScenarioState("deque") => \A a \in DequeScenarios(copy) : DequeCallsLink(a)

\* C32: whatever calls a list (insert, remove, removeall, set, clear) or a deque (push, pop,
\* shift, unshift, clear) has gone through, failed ones included: front is NULL iff back is
\* NULL iff size is 0, front has no previous and back no next, b.previous = a whenever
\* a.next = b, and the walk from front meets size different nodes and ends at back
C32_Links ==
    /\ \A h \in Holding("list") \cup Holding("deque") : Linked(obj[h], nodes)
    /\ LinkScenarios

\* a list of two nodes, each the neighbour of the other, from which the back node can be
\* removed and into which no third value goes
C32_Witness ==
    \E h \in Holding("list") :
        /\ obj[h].size = 2 /\ obj[h].front # obj[h].back
        /\ nodes[obj[h].front].next = obj[h].back /\ nodes[obj[h].back].previous = obj[h].front
        /\ list_remove(obj[h], nodes, slots, 1, NULL, AllOk).l.back = obj[h].front
        /\ ~list_insert(obj[h], nodes, slots, 1, 1, [AllOk EXCEPT !.node = FALSE]).ok

\* what list_sort leaves of the list a: the nodes it had, none allocated or freed, each with
\* its value, in a sound chain; a lookup by index, which walks from the back for the later
\* half, finds the node the walk from the front finds, for list_get, list_remove, list_insert
SortRelinks(a, r) ==
    LET before == ChainOf(a.l, a.nodes)
        after == ChainOf(r.l, r.nodes)
        values == ChainValues(r.l, r.nodes, r.slots) IN
    /\ r.ok /\ r.l.size = a.l.size /\ r.slots = a.slots
    /\ \A n \in DOMAIN a.nodes :
        r.nodes[n].live = a.nodes[n].live /\ r.nodes[n].value = a.nodes[n].value
    /\ Range(after) = Range(before)
    /\ Linked(r.l, r.nodes)
    /\ \A index \in 0..(r.l.size - 1) :
        LET got == list_get(r.l, r.nodes, r.slots, index, 1, AllOk)
            removed == list_remove(r.l, r.nodes, r.slots, index, 1, AllOk)
            inserted == list_insert([r.l EXCEPT !.limit = r.l.size + 1], r.nodes, r.slots,
                                    index, 1, AllOk) IN
        /\ _node_search(r.l, r.nodes, index) = after[index + 1]
        /\ got.ok /\ got.out = values[index + 1]
        /\ removed.ok /\ removed.out = values[index + 1]
        /\ ChainOf(removed.l, removed.nodes) = RemoveAt(after, index)
        /\ inserted.ok =>
            ChainValues(inserted.l, inserted.nodes, inserted.slots) = InsertAt(values, index, 1)

\* every list of up to ScenarioLen values, in whatever order, sorted
SortScenarios ==
    ScenarioState("list") => \A copy \in BOOLEAN : \A a \in Scenarios(copy) :
        /\ SortRelinks(a, list_sort(a.l, a.nodes, a.slots))
        /\ \A reverse \in BOOLEAN, cmp \in Comparators :
            LET r == list_sort_reverse(a.l, a.nodes, a.slots, reverse, cmp)
            IN ~r.undefined => SortRelinks(a, r)

\* C33: list_sort works on the nodes the list has: when it returns the nodes are those it
\* had, front has no previous, the previous links mirror the next links and back is the last
\* node met from front, so that list_get, list_insert and list_remove, which walk from the
\* back for an index >= size / 2, address the elements a walk from the front addresses
C33_SortRelinks ==
    /\ \A h \in Holding("list") :
        SortRelinks([l |-> obj[h], nodes |-> nodes, slots |-> slots],
                    list_sort(obj[h], nodes, slots))
    /\ SortScenarios

\* a list holding (2, c) then (1, a): sorted, the node that was the back is the front and
\* the node that was the front is the back, and index 1 is (2, c)
C33_Witness ==
    \E h \in Holding("list") :
        LET r == list_sort(obj[h], nodes, slots) IN
        /\ ValuesOf(obj[h], nodes, slots) = <<3, 1>>
        /\ r.l.front = obj[h].back /\ r.l.back = obj[h].front
        /\ list_get(r.l, r.nodes, r.slots, 1, 1, AllOk).out = 3

\* the slots of the sequence stored are the allocated cells of the heap, each once: none
\* stored twice, none released or without a value while stored, none allocated and not stored
Owns(stored, heap) ==
    /\ \A i \in DOMAIN stored, j \in DOMAIN stored : i # j => stored[i] # stored[j]
    /\ \A i \in DOMAIN stored : heap[stored[i]].live /\ heap[stored[i]].val # NULL
    /\ \A s \in DOMAIN heap : heap[s].live => s \in Range(stored)

\* the slots the vector behind handle h stores
StoredBy(h) == IF IsObject(obj[h]) THEN obj[h].data ELSE <<>>

\* every call on the vector a that constructs or destroys slots, with every argument and
\* every failure, leaves the slots owned (others are the slots another vector stores), and
\* vector_free after it leaves none of this vector allocated
CallsOwn(a, others) ==
    LET Left(r) ==
            /\ Owns(r.v.data \o others, r.slots)
            /\ \A s \in DOMAIN r.slots :
                vector_free(r.v, r.slots)[s].live => s \in Range(others)
    IN /\ Left(a)
       /\ \A index \in Indexes(a.v.size), data \in Pointers, orc \in Oracles :
            /\ Left(vector_insert(a.v, a.slots, index, data, orc))
            /\ Left(vector_set(a.v, a.slots, index, data, orc))
       /\ \A index \in Indexes(a.v.size), destination \in Destinations, orc \in GetOracles :
            Left(vector_remove(a.v, a.slots, index, destination, orc))
       /\ \A key \in Pointers : Left(vector_removeall(a.v, a.slots, key))
       /\ Left(vector_clear(a.v, a.slots))

\* the vectors of up to ScenarioLen values
OwnScenarios ==
    ScenarioState("vector") => \A clone \in BOOLEAN : \A a \in VectorScenarios(clone) :
        CallsOwn(a, <<>>)

\* C34: over the life of a vector, through any insert, set, remove, removeall and clear and
\* the final free, a slot that was constructed is destroyed once: the slots allocated are
\* those the vectors store, each stored once (not destroyed while stored, not destroyed
\* twice, not left behind), and vector_free leaves none allocated
C34_SlotsOwned ==
    /\ family = "vector" =>
        /\ Owns(StoredBy(1) \o StoredBy(2), slots)
        /\ \A h \in Holding("vector"), s \in SlotIds :
            vector_free(obj[h], slots)[s].live => s \in Range(StoredBy(Other(h)))
    /\ OwnScenarios

\* a vector of two slots alone: set at 0 destroys the slot that was there and stores a new
\* one, remove at 1 destroys the second, and after vector_free nothing is allocated
C34_Witness ==
    \E h \in Holding("vector") :
        LET set == vector_set(obj[h], slots, 0, 1, AllOk)
            removed == vector_remove(obj[h], slots, 1, NULL, AllOk) IN
        /\ ~IsObject(obj[Other(h)]) /\ obj[h].size = 2
        /\ set.ok /\ set.v.data[1] # obj[h].data[1] /\ ~set.slots[obj[h].data[1]].live
        /\ removed.ok /\ ~removed.slots[obj[h].data[2]].live
        /\ \A s \in SlotIds : ~vector_free(obj[h], slots)[s].live

\* count * sizeof(void *) is at most SIZE_MAX: the size_t that holds it is the product
Fits(count) == count * PtrSize <= SIZE_MAX /\ ByteCount(count) = count * PtrSize

\* C35: for a vector that vector_construct accepts (limit <= VECTOR_LIMIT), the byte counts it
\* computes for its slot array do not wrap: capacity * sizeof(void *) in vector_construct and,
\* for every candidate of the loop, in vector_reserve, and size * sizeof(void *) in
\* vector_trim, for every size up to the capacity
C35_BytesFit ==
    family = "grow" =>
        /\ \A width \in Widths, limit \in GrowLimits, capacity \in GrowCapacities,
              increment \in GrowIncrements :
            vector_construct(width, limit, capacity, increment, FALSE, TRUE, TRUE).v # NoObject
                => limit <= VECTOR_LIMIT /\ Fits(capacity)
        /\ IsObject(obj[1]) =>
            /\ obj[1].limit <= VECTOR_LIMIT /\ obj[1].capacity <= obj[1].limit
            /\ Fits(obj[1].capacity)
            /\ \A size \in 0..obj[1].capacity : Fits(size)
        /\ Growing => \A i \in DOMAIN obj[2].steps : Fits(obj[2].steps[i])

\* vector_reserve(VECTOR_LIMIT) on a vector of limit VECTOR_LIMIT has left its loop with the
\* limit as the capacity to ask realloc for
C35_Witness ==
    /\ Growing /\ obj[1].limit = VECTOR_LIMIT /\ obj[1].capacity < VECTOR_LIMIT
    /\ obj[2].size = VECTOR_LIMIT /\ obj[2].capacity = VECTOR_LIMIT
    /\ ByteCount(obj[2].capacity) = VECTOR_LIMIT * PtrSize

\* _list_split of the chain of the list a, of n >= 2 nodes: the nodes from front are the first
\* ceil(n / 2) of the chain, the nodes from the pointer returned the other floor(n / 2), both
\* halves with a node and with fewer than n
SplitHalves(a) ==
    LET chain == ChainOf(a.l, a.nodes)
        n == Len(chain)
        s == _list_split(a.nodes, a.l.front)
        front == Walk(s.nodes, a.l.front, n + 1)
        back == Walk(s.nodes, s.head, n + 1) IN
    n >= 2 =>
        /\ Len(back) = n \div 2 /\ Len(front) = n - (n \div 2)
        /\ front \o back = chain
        /\ Len(front) >= 1 /\ Len(back) >= 1 /\ Len(front) < n /\ Len(back) < n

RECURSIVE MergesortCalls(_, _, _)
\* the calls of _list_mergesort that _list_mergesort(front) makes, itself included
MergesortCalls(heapNodes, heapSlots, front) ==
    IF front = NULL \/ heapNodes[front].next = NULL THEN 1
    ELSE LET s == _list_split(heapNodes, front)
             a == _list_mergesort(s.nodes, heapSlots, front)
         IN 1 + MergesortCalls(s.nodes, heapSlots, front)
              + MergesortCalls(a.nodes, heapSlots, s.head)

\* list_sort of the list a, of n nodes, returns after 2 n - 1 calls of _list_mergesort (one
\* call when the list is empty) with the n nodes chained
SortReturns(a) ==
    LET n == Len(ChainOf(a.l, a.nodes))
        r == list_sort(a.l, a.nodes, a.slots) IN
    /\ MergesortCalls(a.nodes, a.slots, a.l.front) = IF n = 0 THEN 1 ELSE 2 * n - 1
    /\ r.ok /\ Len(ChainOf(r.l, r.nodes)) = n

\* every list of up to ScenarioLen values split, then sorted
SplitScenarios ==
    ScenarioState("list") => \A copy \in BOOLEAN :
        /\ \A a \in Scenarios(copy) : SplitHalves(a)
        /\ \A a \in Scenarios(copy) : SortReturns(a)

\* C36: _list_split of a chain of n >= 2 nodes returns a back half of floor(n / 2) nodes and
\* leaves a front half of ceil(n / 2) nodes, both with a node and holding together the nodes of
\* the chain in order; the halves being shorter than the chain, _list_mergesort stops
\* calling itself and list_sort returns, on the empty and on the one-element list too
C36_SplitHalves ==
    /\ \A h \in Holding("list") : SplitHalves([l |-> obj[h], nodes |-> nodes, slots |-> slots])
    /\ \A h \in Holding("list") : SortReturns([l |-> obj[h], nodes |-> nodes, slots |-> slots])
    /\ SplitScenarios

\* a list of two nodes: _list_split cuts after the front node and returns the back node, and
\* list_sort makes three calls of _list_mergesort
C36_Witness ==
    \E h \in Holding("list") :
        /\ obj[h].size = 2
        /\ _list_split(nodes, obj[h].front).head = obj[h].back
        /\ _list_split(nodes, obj[h].front).nodes[obj[h].front].next = NULL
        /\ MergesortCalls(nodes, slots, obj[h].front) = 3

\* malloc has a cell to give: the slot gets as far as the clone hook
HasRoom(heap) == \E s \in DOMAIN heap : ~heap[s].live

\* the call whose clone hook failed has r for result on the heap: it fails with the error of
\* the hook, and the heap is as it was, no buffer having gone to the delete hook unwritten
Spares(r, heap) == ~r.ok /\ r.err = "EHOOK" /\ ~Spoiled(r.slots) /\ r.slots = heap

\* vector_insert and vector_set of source/vector/vector.c on the vector v, the clone hook failing
VectorSpares(v, heap) ==
    \A index \in 0..v.size, data \in Values : HasRoom(heap) =>
        /\ ~vector_full(v) =>
            Spares(vector_insert(v, heap, index, data, [AllOk EXCEPT !.hook = FALSE]), heap)
        /\ index < v.size =>
            Spares(vector_set(v, heap, index, data, [AllOk EXCEPT !.hook = FALSE]), heap)

\* vector_insert and vector_set of unnamed/part_010 on the vector v, the clone hook failing
HookedSpares(v, heap) ==
    \A index \in 0..v.size, data \in Values : HasRoom(heap) =>
        /\ ~vector_full(v) =>
            Spares(vector_insert_hooked(v, heap, data, index, [AllOk EXCEPT !.hook = FALSE]),
                   heap)
        /\ index < v.size =>
            Spares(vector_set_hooked(v, heap, data, index, [AllOk EXCEPT !.hook = FALSE]), heap)

\* C37: in each variant of the vector, when the clone hook fails while vector_insert or
\* vector_set constructs a slot, the call fails and the buffer is released without the
\* delete hook having run on it
C37_HookSpared ==
    \A h \in Holding("vector") :
        obj[h].clone => VectorSpares(obj[h], slots) /\ HookedSpares(obj[h], slots)

\* a queue whose last node was dequeued: it is empty and its tail is not NULL
TailLeft(queue) == queue.head = NULL /\ queue.size = 0 /\ queue.tail # NULL

\* C38: in the queue kept by head and tail, after any calls of queue_enqueue, queue_dequeue
\* and queue_clear, head is NULL exactly when tail is NULL and exactly when size is 0, and
\* tail never points to a freed node
C38_HeadTail ==
    \A h \in Holding("head") :
        /\ (obj[h].head = NULL) <=> (obj[h].tail = NULL)
        /\ (obj[h].head = NULL) <=> (obj[h].size = 0)
        /\ obj[h].tail # NULL => nodes[obj[h].tail].live

\* the values of the vector of thread t, in the order of its data
SortedValues(t) == [i \in DOMAIN obj[t].data |-> slots[obj[t].data[i]].val]

\* C39: when two calls of vector_sort on two different vectors interleave, each vector ends
\* up in the order of the comparator and the reverse flag passed to its own call
C39_SortsApart ==
    \A t \in Threads :
        (family = "sort" /\ obj[t].pc = "done") =>
            InOrder(SortedValues(t), obj[t].reverse, obj[t].compare)
====
